---- MODULE Spec2Model ----
(***************************************************************************)
(* Verification model of the dc-egm solver core.                           *)
(*                                                                         *)
(* Part 1: the Fast Upper-Envelope Scan (src/dcegm/fast_upper_envelope.py) *)
(* Part 2: the batch builder (src/dcegm/pre_processing/batches.py)         *)
(* Part 3: the aggregation kernels                                         *)
(*         (src/dcegm/marg_utilities_and_exp_value.py,                     *)
(*          src/dcegm/egm/aggregate_marginal_utility.py,                   *)
(*          src/dcegm/aggregate_policy_value.py)                           *)
(* Part 4: the EGM step (src/dcegm/egm.py)                                 *)
(* Part 5: create_state_space                                              *)
(*         (src/dcegm/pre_processing/model_structure/state_space.py)       *)
(* Part 6: setup, save and load (src/dcegm/pre_processing/setup_model.py)  *)
(* Part 7: the final period (src/dcegm/final_period.py)                    *)
(*                                                                         *)
(* Parts 1 and 2 have further specifications over other inputs:            *)
(* SpecAugment (the wrapper on long raw grids), SpecScan (scans of 6 and   *)
(* more points) and SpecBatchFair (the batch search under fairness).       *)
(*                                                                         *)
(* Real numbers are exact rationals <<numerator, denominator>> in lowest   *)
(* terms with a positive denominator; floating point rounding is not       *)
(* modelled.  NaN is the pair <<0, 0>>.  Arrays are functions on 0..n-1,   *)
(* as in the source.                                                       *)
(***************************************************************************)
EXTENDS Integers, Sequences, FiniteSets, TLC

----------------------------------------------------------------------------
(* Bounds of the explored inputs *)

MaxLen == 5         \* longest input with a strictly increasing grid
MaxTiedLen == 4     \* longest input whose grid may repeat values
MaxRawLen == 3      \* longest raw EGM result handed to the wrapper
MaxScanLen == 7     \* longest input of the calls with a ring of several discarded points
MaxAugmentLen == 40 \* longest raw EGM result of the calls that only prepare the arrays
MaxGrid == 4        \* grid values are 0..MaxGrid
MaxTiedGrid == 2    \* grid values of the inputs with repeated values
MaxValue == 1       \* values are 0..MaxValue
MaxPolicy == 2      \* policies are 0..MaxPolicy

MaxPeriods == 5     \* models have 3..MaxPeriods periods
MaxFairPeriods == 6 \* the models explored under fairness have 3..MaxFairPeriods periods
MaxStates == 2      \* states per period
MaxChoices == 2     \* choices per state
MaxWrapperChoice == 1   \* the choice argument of the wrapper is 0..MaxWrapperChoice
MaxExog == 1        \* child states per state-choice

(* Program constants *)

jump_thresh_default == 2
n_points_to_scan == 10

----------------------------------------------------------------------------
(* Exact rational arithmetic standing for the float arithmetic of the code *)

Abs(a) == IF a < 0 THEN -a ELSE a

RECURSIVE Gcd(_, _)
Gcd(a, b) == IF b = 0 THEN a ELSE Gcd(b, a % b)

Rat(n, d) ==
    LET g == Gcd(Abs(n), Abs(d))
        s == IF d < 0 THEN -1 ELSE 1
    IN  <<(s * n) \div g, (s * d) \div g>>

R(n) == <<n, 1>>
NaN == <<0, 0>>
IsNaN(a) == a[2] = 0

RAdd(a, b) == Rat(a[1] * b[2] + b[1] * a[2], a[2] * b[2])
RSub(a, b) == Rat(a[1] * b[2] - b[1] * a[2], a[2] * b[2])
RMul(a, b) == Rat(a[1] * b[1], a[2] * b[2])
RDiv(a, b) == Rat(a[1] * b[2], a[2] * b[1])
RLess(a, b) == a[1] * b[2] < b[1] * a[2]
RLeq(a, b) == a[1] * b[2] <= b[1] * a[2]
RAbs(a) == <<Abs(a[1]), a[2]>>
RIsZero(a) == a[1] = 0
RPos(a) == a[1] > 0

(* A quotient whose denominator went through max(., 1e-16): <<0, q>> is the *)
(* ordinary quotient q, <<1, p>> is p / 1e-16.  Every non-zero rational of  *)
(* the model is far larger than 1e-16 and far smaller than 1e16 in absolute *)
(* value, so p / 1e-16 compares with ordinary quotients by the sign of p.   *)
GuardedQuotient(num, den) ==
    IF RPos(den) THEN <<0, RDiv(num, den)>> ELSE <<1, num>>

GradLess(g, h) ==
    IF g[1] = h[1] THEN RLess(g[2], h[2])
    ELSE IF g[1] = 1
         THEN IF RIsZero(g[2]) THEN RPos(h[2]) ELSE ~RPos(g[2])
         ELSE IF RIsZero(h[2]) THEN RLess(g[2], R(0)) ELSE RPos(h[2])

Plain(q) == <<0, q>>

Min(a, b) == IF a < b THEN a ELSE b
Max(a, b) == IF a > b THEN a ELSE b

----------------------------------------------------------------------------
(* State *)

VARIABLES
    pc,                 \* "wrapper", "fues", "scan" (line 220), "decide" (line 272),
                        \* "done", "raised"
    caller,             \* entry point of the call: "wrapper" or "fues"
    run,                \* 1 for the call itself, 2 for FUES re-applied to its own output
    error,              \* exception that ended the call, "none" otherwise
    endog_grid, value, policy,              \* the (unrefined) input arrays
    expected_value_zero_savings,
    value_refined, policy_refined, endog_grid_refined,
    suboptimal_points,
    value_j, endog_grid_j, policy_j, exog_grid_j,
    value_k, endog_grid_k, policy_k,
    idx_refined,
    i,                  \* loop variable of scan_value_function
    step,               \* locals of the current iteration, set by lines 222-265
    first_result,       \* the arrays returned by run 1, kept for the comparison of run 2
    history             \* the branches taken by the iterations of the current scan, in
                        \* order, each with its value of switch_value_func

VARIABLES
    n_periods,
    state_space,                        \* state id -> its period (column 0)
    state_choice_space,                 \* state-choice id -> its period (column 0)
    map_state_choice_to_index,          \* state id -> the state-choice ids of its choices
    map_state_choice_to_child_states,   \* state-choice id -> the ids of its child states
    current_batch_size, need_to_reduce_batchsize, batch_not_found,
    batches_to_check,
    child_state_choice_idxs_to_interpolate,
    batch_i             \* loop variable i of the for loop of determine_optimal_batch_size

model_structure ==
    <<n_periods, state_space, state_choice_space, map_state_choice_to_index,
      map_state_choice_to_child_states>>

batch_locals ==
    <<current_batch_size, need_to_reduce_batchsize, batch_not_found, batches_to_check,
      child_state_choice_idxs_to_interpolate, batch_i>>

batch_vars == <<model_structure, batch_locals>>

fues_vars ==
    <<pc, caller, run, error, endog_grid, value, policy, expected_value_zero_savings,
      value_refined, policy_refined, endog_grid_refined, suboptimal_points,
      value_j, endog_grid_j, policy_j, exog_grid_j, value_k, endog_grid_k, policy_k,
      idx_refined, i, step, first_result, history>>

scan_locals ==
    <<value_refined, policy_refined, endog_grid_refined, suboptimal_points,
      value_j, endog_grid_j, policy_j, exog_grid_j, value_k, endog_grid_k, policy_k,
      idx_refined, i, step, history>>

\* the variables of part 1 other than pc and error
fues_data ==
    <<caller, run, endog_grid, value, policy, expected_value_zero_savings, first_result,
      scan_locals>>

VARIABLES
    choice_set_indices,         \* choice -> 1 (feasible) or 0
    marg_utilities,             \* choice -> marginal utility
    values,                     \* choice -> choice-specific value
    income_shock_weight,
    taste_shock_scale,
    choice_probabilities,       \* local of kernel 1
    child_state_marg_util, child_state_exp_max_value,       \* results of kernel 1
    choice_probs,               \* local of kernel 2
    marg_util, log_sum,         \* results of kernel 2, before the shock integration
    logsum                      \* result of _calc_log_sum

aggregation_inputs ==
    <<choice_set_indices, marg_utilities, values, income_shock_weight, taste_shock_scale>>

aggregation_results ==
    <<choice_probabilities, child_state_marg_util, child_state_exp_max_value,
      choice_probs, marg_util, log_sum, logsum>>

aggregation_vars == <<aggregation_inputs, aggregation_results>>

VARIABLES
    marg_util_next,             \* child node -> savings point -> marginal utility
    emax_next,                  \* child node -> savings point -> expected maximum value
    idx_state_choices_period,   \* the state-choice ids of the period
    map_state_to_post_decision_child_nodes,     \* state-choice id -> exogenous state -> child node
    exogenous_savings_grid,
    transition_vector_by_state, \* callback: state vector -> transition probabilities
    state_choice_mat,           \* row of a state-choice: <<state variables..., choice>>
    compute_inverse_marginal_utility,           \* callback, by name
    params,                     \* [interest_rate, beta]
    expected_value              \* result: state-choice -> savings point -> expected value

egm_inputs ==
    <<marg_util_next, emax_next, idx_state_choices_period,
      map_state_to_post_decision_child_nodes, exogenous_savings_grid,
      transition_vector_by_state, state_choice_mat, compute_inverse_marginal_utility, params>>

egm_vars == <<egm_inputs, expected_value>>

VARIABLES
    options,                    \* [n_periods, n_choices, sparsity_condition, proxy]
    period, lagged_choice,      \* loop variables of create_state_space
    state_space_list,
    list_of_states_proxied_from, list_of_states_proxied_to,
    proxies_exist,
    map_state_to_index,         \* state -> state id, or absent
    map_child_state_to_index

state_space_locals ==
    <<period, lagged_choice, state_space_list, list_of_states_proxied_from,
      list_of_states_proxied_to, proxies_exist>>

state_space_vars ==
    <<options, state_space_locals, map_state_to_index, map_child_state_to_index>>

VARIABLES
    files,                      \* path -> the bytes of the file, NoFile when there is none
    path,                       \* argument path of the last call
    utility_functions,          \* the callbacks supplied to the last call
    model_setup,                \* result of setup_model
    model_after_saving,         \* result of setup_and_save_model
    model_after_loading,        \* result of load_and_setup_model
    tuned_options               \* result of process_tuning_parameters

setup_results == <<model_setup, model_after_saving, model_after_loading, tuned_options>>

setup_vars == <<files, path, utility_functions, setup_results>>

VARIABLES
    state_objects_final_period, \* idx_parent_states and state_choice_mat of the final period
    compute_final_period,       \* the user's callback
    resources_beginning_of_period,  \* [state][wealth grid point][income shock draw]
    value_final,                \* results of solve_final_period; endog_grid is the fourth
    policy_left,
    policy_right,
    marg_util_interpolated,
    value_interpolated

final_period_inputs ==
    <<state_objects_final_period, compute_final_period, resources_beginning_of_period>>

final_period_results ==
    <<value_final, policy_left, policy_right, marg_util_interpolated, value_interpolated>>

final_period_vars == <<final_period_inputs, final_period_results>>

\* the variables of the parts after part 2
later_parts == <<aggregation_vars, egm_vars, state_space_vars, setup_vars, final_period_vars>>

\* what the actions of part 1 leave alone
outside_fues == <<batch_vars, later_parts>>

len(a) == Cardinality(DOMAIN a)
Array(s) == [m \in 0..(Len(s) - 1) |-> s[m + 1]]
EmptyArray == [m \in {} |-> NaN]

----------------------------------------------------------------------------
(* fast_upper_envelope: the stable sort by the endogenous grid *)

\* np.argsort(endog_grid, kind="mergesort"): position p holds the index whose
\* grid value has exactly p predecessors in the stable order.
before_unstable(a, m, q) == RLess(a[m], a[q]) \/ (a[m] = a[q] /\ m > q)
\* the stable order: by value, equal values by position
before(a, m, q) == RLess(a[m], a[q]) \/ (a[m] = a[q] /\ m < q)

unsorted(a) == [p \in DOMAIN a |-> p]
argsort(a) ==
    LET rank(q) == Cardinality({m \in DOMAIN a : before(a, m, q)})
    IN  [p \in DOMAIN a |-> CHOOSE q \in DOMAIN a : rank(q) = p]

take(a, idx) == [p \in DOMAIN idx |-> a[idx[p]]]

----------------------------------------------------------------------------
(* Helpers of scan_value_function *)

initialize_refined_arrays(a) ==
    [m \in DOMAIN a |-> IF m < 2 THEN a[m] ELSE NaN]

append_index(x_array, m) ==
    [q \in DOMAIN x_array |->
        IF q = len(x_array) - 1 THEN m ELSE x_array[q + 1]]

\* err marks the ZeroDivisionError of the compiled (njit) helpers.
evaluate_point_on_line(x1, y1, x2, y2, point_to_evaluate) ==
    IF x2 = x1 THEN [err |-> TRUE, y |-> NaN]
    ELSE [err |-> FALSE,
          y |-> RAdd(RMul(RDiv(RSub(y2, y1), RSub(x2, x1)),
                          RSub(point_to_evaluate, x1)), y1)]

\* lines 607-610, given the two slopes
intersection_of(slope1, slope2, x1, y1, x3, y3) ==
    [err |-> FALSE,
     x |-> RDiv(RSub(RAdd(RSub(RMul(slope1, x1), RMul(slope2, x3)), y3), y1),
                RSub(slope1, slope2)),
     y |-> RAdd(RMul(slope1,
                     RSub(RDiv(RSub(RAdd(RSub(RMul(slope1, x1), RMul(slope2, x3)), y3), y1),
                               RSub(slope1, slope2)), x1)), y1)]

intersect_slopes(slope1, slope2, x1, y1, x3, y3) ==
    IF slope1 = slope2 THEN [err |-> TRUE, x |-> NaN, y |-> NaN]
    ELSE intersection_of(slope1, slope2, x1, y1, x3, y3)

linear_intersection(x1, y1, x2, y2, x3, y3, x4, y4) ==
    IF x2 = x1 \/ x4 = x3 THEN [err |-> TRUE, x |-> NaN, y |-> NaN]
    ELSE intersect_slopes(RDiv(RSub(y2, y1), RSub(x2, x1)),
                          RDiv(RSub(y4, y3), RSub(x4, x3)), x1, y1, x3, y3)

\* Loop(s, acc) is the loop body for i = s with the three results so far in acc.
\* Once idx_to_check has been clamped to idx_max, every further iteration
\* repeats the comparison already made there and leaves acc as it is, so the
\* loop is cut after the first iteration that reaches idx_max.
forward_scan(val, endog, exog, jump_thresh, endog_grid_current, exog_grid_current, idx_next, n_scan) ==
    LET idx_max == len(exog) - 1
        RECURSIVE Loop(_, _)
        Loop(s, acc) ==
            IF s > n_scan \/ acc.err \/ idx_next + s > idx_max + 1 THEN acc
            ELSE LET idx_to_check == Min(idx_next + s, idx_max)
                 IN  IF RLess(endog_grid_current, endog[idx_to_check])
                     THEN IF endog[idx_next] = endog[idx_to_check]
                          THEN [acc EXCEPT !.err = TRUE]
                          ELSE LET is_on_same_value ==
                                       RLess(RAbs(RDiv(RSub(exog_grid_current, exog[idx_to_check]),
                                                       RSub(endog_grid_current, endog[idx_to_check]))),
                                             jump_thresh)
                                   is_next == is_on_same_value /\ ~acc.found
                               IN  Loop(s + 1,
                                        [grad  |-> IF is_next
                                                   THEN RDiv(RSub(val[idx_next], val[idx_to_check]),
                                                             RSub(endog[idx_next], endog[idx_to_check]))
                                                   ELSE acc.grad,
                                         idx   |-> IF is_next THEN idx_to_check ELSE acc.idx,
                                         found |-> acc.found \/ is_on_same_value,
                                         err   |-> FALSE])
                     ELSE Loop(s + 1, acc)
    IN  Loop(1, [grad |-> R(0), idx |-> 0, found |-> FALSE, err |-> FALSE])

\* _backward_scan with every entry on the same value overwriting the result
backward_scan_keeping_oldest(val, endog, exog, subopt, jump_thresh, value_current, endog_grid_current, idx_next) ==
    LET indexes_reversed == len(subopt) - 1
        RECURSIVE Loop(_, _)
        Loop(s, acc) ==
            IF \/ s > indexes_reversed \/ acc.err
               \/ (s > 0 /\ subopt[indexes_reversed - s + 1] = 0) THEN acc
            ELSE LET idx_to_check == subopt[indexes_reversed - s]
                 IN  IF RLess(endog[idx_to_check], endog_grid_current)
                     THEN IF endog[idx_next] = endog[idx_to_check]
                          THEN [acc EXCEPT !.err = TRUE]
                          ELSE LET is_on_same_value ==
                                       RLess(RAbs(RDiv(RSub(exog[idx_next], exog[idx_to_check]),
                                                       RSub(endog[idx_next], endog[idx_to_check]))),
                                             jump_thresh)
                                   is_before == is_on_same_value
                               IN  Loop(s + 1,
                                        [grad    |-> IF is_before
                                                     THEN RDiv(RSub(value_current, val[idx_to_check]),
                                                               RSub(endog_grid_current, endog[idx_to_check]))
                                                     ELSE acc.grad,
                                         sub_idx |-> IF is_before THEN indexes_reversed - s
                                                     ELSE acc.sub_idx,
                                         found   |-> acc.found \/ is_on_same_value,
                                         err     |-> FALSE])
                     ELSE Loop(s + 1, acc)
    IN  Loop(0, [grad |-> R(0), sub_idx |-> 0, found |-> FALSE, err |-> FALSE])

\* Loop(s, acc) is the loop body for the s-th newest ring slot.  The slots not
\* yet filled hold 0 and lie behind the filled ones; every one after the first
\* repeats the comparison with index 0 and leaves acc as it is, so the loop is
\* cut after the first slot that holds 0.
backward_scan(val, endog, exog, subopt, jump_thresh, value_current, endog_grid_current, idx_next) ==
    LET indexes_reversed == len(subopt) - 1
        RECURSIVE Loop(_, _)
        Loop(s, acc) ==
            IF \/ s > indexes_reversed \/ acc.err
               \/ (s > 0 /\ subopt[indexes_reversed - s + 1] = 0) THEN acc
            ELSE LET idx_to_check == subopt[indexes_reversed - s]
                 IN  IF RLess(endog[idx_to_check], endog_grid_current)
                     THEN IF endog[idx_next] = endog[idx_to_check]
                          THEN [acc EXCEPT !.err = TRUE]
                          ELSE LET is_on_same_value ==
                                       RLess(RAbs(RDiv(RSub(exog[idx_next], exog[idx_to_check]),
                                                       RSub(endog[idx_next], endog[idx_to_check]))),
                                             jump_thresh)
                                   is_before == is_on_same_value /\ ~acc.found
                               IN  Loop(s + 1,
                                        [grad    |-> IF is_before
                                                     THEN RDiv(RSub(value_current, val[idx_to_check]),
                                                               RSub(endog_grid_current, endog[idx_to_check]))
                                                     ELSE acc.grad,
                                         sub_idx |-> IF is_before THEN indexes_reversed - s
                                                     ELSE acc.sub_idx,
                                         found   |-> acc.found \/ is_on_same_value,
                                         err     |-> FALSE])
                     ELSE Loop(s + 1, acc)
    IN  Loop(0, [grad |-> R(0), sub_idx |-> 0, found |-> FALSE, err |-> FALSE])

----------------------------------------------------------------------------
(* scan_value_function: the quantities of one loop iteration *)

n_grid == len(endog_grid)
exog_grid == [m \in DOMAIN endog_grid |-> RSub(endog_grid[m], policy[m])]
jump_thresh == R(jump_thresh_default)

InLoop == pc = "scan" /\ i <= n_grid - 3
LoopDone == pc = "scan" /\ i > n_grid - 3
Deciding == pc = "decide"

\* lines 222-223
grad_before ==
    GuardedQuotient(RSub(value_j, value_k), RSub(endog_grid_j, endog_grid_k))
\* lines 226-227
grad_next ==
    GuardedQuotient(RSub(value[i + 1], value_j), RSub(endog_grid[i + 1], endog_grid_j))

jump_at_threshold(de, dx, thresh) ==
    IF RPos(dx) THEN RLeq(thresh, RAbs(RDiv(de, dx))) ELSE ~RIsZero(de)

\* |de| / max(dx, 1e-16) > thresh
jump(de, dx, thresh) ==
    IF RPos(dx) THEN RLess(thresh, RAbs(RDiv(de, dx))) ELSE ~RIsZero(de)

\* lines 229-233
switch_value_func ==
    jump(RSub(RSub(endog_grid[i + 1], policy[i + 1]), exog_grid_j),
         RSub(endog_grid[i + 1], endog_grid_j), jump_thresh)

\* lines 235-248
fwd ==
    forward_scan(value, endog_grid, exog_grid, jump_thresh, endog_grid_j, exog_grid_j,
                 i + 1, n_points_to_scan)
\* lines 250-262
bwd ==
    backward_scan(value, endog_grid, exog_grid, suboptimal_points, jump_thresh,
                  value_j, endog_grid_j, i + 1)

NoStep == [grad_before |-> Plain(NaN), grad_next |-> Plain(NaN),
           switch_value_func |-> FALSE, fwd |-> [err |-> FALSE], bwd |-> [err |-> FALSE]]

\* lines 263-265
idx_before_on_upper_curve == suboptimal_points[step.bwd.sub_idx]
idx_next_on_lower_curve == step.fwd.idx

suboptimal_without_forward_gradient(value_next, exog_next, gn, grad_next_forward, switch) ==
    RLess(value_next, value_j) \/ RLess(exog_next, exog_grid_j)

\* lines 272-276
suboptimal(value_next, exog_next, gn, grad_next_forward, switch) ==
    \/ RLess(value_next, value_j)
    \/ RLess(exog_next, exog_grid_j)
    \/ (GradLess(gn, Plain(grad_next_forward)) /\ switch)

\* line 295
upper_branch_ends(gb, gn, grad_next_backward) ==
    GradLess(gn, gb) \/ GradLess(gn, Plain(grad_next_backward))
\* line 350
upper_branch_continues(gn, grad_next_backward) ==
    GradLess(Plain(grad_next_backward), gn)

\* the branch of the if/elif chain of lines 272-350 an iteration takes
branch(f, b, gb, gn, switch, value_next, exog_next) ==
    IF suboptimal(value_next, exog_next, gn, f.grad, switch) THEN "discard"
    ELSE IF ~switch THEN "accept"
    ELSE IF upper_branch_ends(gb, gn, b.grad) THEN "kink_ends"
    ELSE IF upper_branch_continues(gn, b.grad) THEN "kink_continues"
    ELSE "none"

Branch ==
    branch(step.fwd, step.bwd, step.grad_before, step.grad_next, step.switch_value_func,
           value[i + 1], RSub(endog_grid[i + 1], policy[i + 1]))

\* lines 307-320 and 364-377: the policies left and right of an intersection p
with_policies(p, x1, c1, x2, c2, x3, c3, x4, c4) ==
    IF p.err THEN [err |-> TRUE]
    ELSE [err |-> FALSE, grid |-> p.x, val |-> p.y,
          policy_left |-> evaluate_point_on_line(x1, c1, x2, c2, p.x).y,
          policy_right |-> evaluate_point_on_line(x3, c3, x4, c4, p.x).y]

\* lines 296-320: intersection of line (f, j) with line (i+1, b)
kink_ends_at(f, b) ==
    with_policies(linear_intersection(endog_grid[f], value[f], endog_grid_j, value_j,
                                      endog_grid[i + 1], value[i + 1],
                                      endog_grid[b], value[b]),
                  endog_grid[f], policy[f], endog_grid_j, policy_j,
                  endog_grid[i + 1], policy[i + 1], endog_grid[b], policy[b])

\* lines 351-377: intersection of line (j, k) with line (i+1, b)
kink_continues_at(b) ==
    with_policies(linear_intersection(endog_grid_j, value_j, endog_grid_k, value_k,
                                      endog_grid[i + 1], value[i + 1],
                                      endog_grid[b], value[b]),
                  endog_grid_k, policy_k, endog_grid_j, policy_j,
                  endog_grid[i + 1], policy[i + 1], endog_grid[b], policy[b])

KinkEnds == kink_ends_at(idx_next_on_lower_curve, idx_before_on_upper_curve)
KinkContinues == kink_continues_at(idx_before_on_upper_curve)

----------------------------------------------------------------------------
(* fast_upper_envelope_wrapper *)

\* np.linspace(start, stop, num)
linspace(start, stop, num) ==
    [m \in 0..(num - 1) |->
        IF num = 1 THEN start
        ELSE RAdd(start, RMul(Rat(m, num - 1), RSub(stop, start)))]

np_min(a) == CHOOSE x \in {a[m] : m \in DOMAIN a} : \A m \in DOMAIN a : RLeq(x, a[m])

\* np.append(front, back)
append(front, back) ==
    [m \in 0..(len(front) + len(back) - 1) |->
        IF m < len(front) THEN front[m] ELSE back[m - len(front)]]

one(x) == [m \in {0} |-> x]

\* np.linspace(min_wealth_grid, endog_grid[0], points_to_add) without the [:-1]
grid_points_to_add_with_last(grid, min_wealth_grid, points_to_add) ==
    linspace(min_wealth_grid, grid[0], points_to_add)

\* np.linspace(min_wealth_grid, endog_grid[0], points_to_add)[:-1]
grid_points_to_add(grid, min_wealth_grid, points_to_add) ==
    LET all == linspace(min_wealth_grid, grid[0], points_to_add)
    IN  [m \in 0..(points_to_add - 2) |-> all[m]]

\* the user's compute_value, kept as the call with its arguments
compute_value(consumption, next_period_value, choice) ==
    <<"compute_value", consumption, next_period_value, choice>>

\* _augment_grids; the callback is applied to each point of its first argument
augment_grids(grid, val, pol, choice, value_zero_savings, min_wealth_grid, points_to_add) ==
    LET added == grid_points_to_add(grid, min_wealth_grid, points_to_add)
        values_to_add == [m \in DOMAIN added |-> compute_value(added[m], value_zero_savings, choice)]
    IN  [grid |-> append(added, grid),
         val |-> append(values_to_add, val),
         pol |-> append(added, pol)]

NeedsAugmentation(grid) == RLess(np_min(grid), grid[0])

ValueDomain == {R(x) : x \in 0..MaxValue}
GridDomain == {R(x) : x \in 0..MaxGrid}
TiedGridDomain == {R(x) : x \in 0..MaxTiedGrid}
PolicyDomain == {R(x) : x \in 0..MaxPolicy}

\* lines 75-98: the arrays handed to fast_upper_envelope
Wrapper ==
    /\ pc = "wrapper"
    /\ \E choice \in 0..MaxWrapperChoice :
         LET aug == IF NeedsAugmentation(endog_grid)
                    THEN augment_grids(endog_grid, value, policy, choice,
                                       expected_value_zero_savings,
                                       np_min(endog_grid), len(endog_grid) \div 10)
                    ELSE [grid |-> endog_grid, val |-> value, pol |-> policy]
         IN  /\ endog_grid' = append(one(R(0)), aug.grid)
             /\ policy' = append(one(R(0)), aug.pol)
             /\ value' = append(one(expected_value_zero_savings), aug.val)
    /\ pc' = "fues"
    /\ UNCHANGED <<outside_fues, caller, run, error, expected_value_zero_savings, first_result>>
    /\ UNCHANGED scan_locals

----------------------------------------------------------------------------
(* fast_upper_envelope: sort, then the prologue of scan_value_function *)

FastUpperEnvelope ==
    /\ pc = "fues"
    /\ LET idx_sort == argsort(endog_grid)
           v == take(value, idx_sort)
           c == take(policy, idx_sort)
           x == take(endog_grid, idx_sort)
       IN  /\ value' = v
           /\ policy' = c
           /\ endog_grid' = x
           /\ value_refined' = initialize_refined_arrays(v)
           /\ policy_refined' = initialize_refined_arrays(c)
           /\ endog_grid_refined' = initialize_refined_arrays(x)
           /\ suboptimal_points' = [m \in 0..(n_points_to_scan - 1) |-> 0]
           /\ value_j' = v[1]
           /\ endog_grid_j' = x[1]
           /\ policy_j' = c[1]
           /\ exog_grid_j' = RSub(x[1], c[1])
           /\ value_k' = v[0]
           /\ endog_grid_k' = x[0]
           /\ policy_k' = c[0]
    /\ idx_refined' = 2
    /\ i' = 1
    /\ step' = NoStep
    /\ history' = <<>>
    /\ pc' = "scan"
    /\ UNCHANGED <<outside_fues, caller, run, error, expected_value_zero_savings, first_result>>

----------------------------------------------------------------------------
(* scan_value_function: one action per outcome of a loop iteration *)

Frame == UNCHANGED <<outside_fues, caller, run, error, endog_grid, value, policy,
                     expected_value_zero_savings, first_result>>

\* lines 222-265: the gradients, the jump predicate and the two scans
scanned(f, b) ==
    /\ ~f.err /\ ~b.err
    /\ step' = [grad_before |-> grad_before, grad_next |-> grad_next,
                switch_value_func |-> switch_value_func, fwd |-> f, bwd |-> b]

Evaluate ==
    /\ InLoop
    /\ scanned(fwd, bwd)
    /\ pc' = "decide"
    /\ UNCHANGED <<value_refined, policy_refined, endog_grid_refined, suboptimal_points,
                   value_j, endog_grid_j, policy_j, exog_grid_j,
                   value_k, endog_grid_k, policy_k, idx_refined, i, history>>
    /\ Frame

\* ZeroDivisionError of a compiled scan (lines 456, 467, 529)
RaiseInScan ==
    /\ InLoop
    /\ fwd.err \/ bwd.err
    /\ pc' = "raised"
    /\ error' = "ZeroDivisionError"
    /\ UNCHANGED <<outside_fues, caller, run, endog_grid, value, policy,
                   expected_value_zero_savings, first_result>>
    /\ UNCHANGED scan_locals

\* the iteration took the branch br
taken(br) ==
    history' = Append(history, [branch |-> br, switch_value_func |-> step.switch_value_func])

\* line 277: the candidate is pushed into the ring of suboptimal points
Discard ==
    /\ Deciding /\ Branch = "discard"
    /\ taken("discard")
    /\ suboptimal_points' = append_index(suboptimal_points, i + 1)
    /\ i' = i + 1
    /\ pc' = "scan"
    /\ UNCHANGED <<step, value_refined, policy_refined, endog_grid_refined,
                   value_j, endog_grid_j, policy_j, exog_grid_j,
                   value_k, endog_grid_k, policy_k, idx_refined>>
    /\ Frame

\* k = j; j = i + 1
advance_k_and_j ==
    /\ value_k' = value_j
    /\ endog_grid_k' = endog_grid_j
    /\ policy_k' = policy_j
    /\ value_j' = value[i + 1]
    /\ endog_grid_j' = endog_grid[i + 1]
    /\ policy_j' = policy[i + 1]
    /\ exog_grid_j' = RSub(endog_grid[i + 1], policy[i + 1])

Accept_in_place ==
    /\ Deciding /\ Branch = "accept"
    /\ taken("accept")
    /\ idx_refined < n_grid
    /\ value_refined' = [value_refined EXCEPT ![idx_refined] = value[i + 1]]
    /\ policy_refined' = [policy_refined EXCEPT ![idx_refined] = policy[i + 1]]
    /\ endog_grid_refined' = [endog_grid_refined EXCEPT ![idx_refined] = endog_grid[i + 1]]
    /\ idx_refined' = idx_refined
    /\ advance_k_and_j
    /\ i' = i + 1
    /\ pc' = "scan"
    /\ UNCHANGED <<step, suboptimal_points>>
    /\ Frame

\* lines 279-293
Accept ==
    /\ Deciding /\ Branch = "accept"
    /\ taken("accept")
    /\ idx_refined < n_grid
    /\ value_refined' = [value_refined EXCEPT ![idx_refined] = value[i + 1]]
    /\ policy_refined' = [policy_refined EXCEPT ![idx_refined] = policy[i + 1]]
    /\ endog_grid_refined' = [endog_grid_refined EXCEPT ![idx_refined] = endog_grid[i + 1]]
    /\ idx_refined' = idx_refined + 1
    /\ advance_k_and_j
    /\ i' = i + 1
    /\ pc' = "scan"
    /\ UNCHANGED <<step, suboptimal_points>>
    /\ Frame

write_kink_ends_right_policy_twice(p) ==
    /\ ~p.err
    /\ idx_refined + 2 < n_grid
    /\ value_refined' = [value_refined EXCEPT ![idx_refined] = p.val,
                                              ![idx_refined + 1] = p.val,
                                              ![idx_refined + 2] = value[i + 1]]
    /\ policy_refined' = [policy_refined EXCEPT ![idx_refined] = p.policy_right,
                                                ![idx_refined + 1] = p.policy_right,
                                                ![idx_refined + 2] = policy[i + 1]]
    /\ endog_grid_refined' = [endog_grid_refined EXCEPT ![idx_refined] = p.grid,
                                                        ![idx_refined + 1] = p.grid,
                                                        ![idx_refined + 2] = endog_grid[i + 1]]
    /\ idx_refined' = idx_refined + 3

\* lines 322-335
write_kink_ends(p) ==
    /\ ~p.err
    /\ idx_refined + 2 < n_grid
    /\ value_refined' = [value_refined EXCEPT ![idx_refined] = p.val,
                                              ![idx_refined + 1] = p.val,
                                              ![idx_refined + 2] = value[i + 1]]
    /\ policy_refined' = [policy_refined EXCEPT ![idx_refined] = p.policy_left,
                                                ![idx_refined + 1] = p.policy_right,
                                                ![idx_refined + 2] = policy[i + 1]]
    /\ endog_grid_refined' = [endog_grid_refined EXCEPT ![idx_refined] = p.grid,
                                                        ![idx_refined + 1] = p.grid,
                                                        ![idx_refined + 2] = endog_grid[i + 1]]
    /\ idx_refined' = idx_refined + 3

\* lines 295-345
KinkUpperBranchEnds ==
    /\ Deciding /\ Branch = "kink_ends"
    /\ taken("kink_ends")
    /\ write_kink_ends(KinkEnds)
    /\ advance_k_and_j
    /\ i' = i + 1
    /\ pc' = "scan"
    /\ UNCHANGED <<step, suboptimal_points>>
    /\ Frame

write_kink_continues_without_last_policy(p) ==
    /\ ~p.err
    /\ idx_refined + 1 < n_grid
    /\ value_refined' = [value_refined EXCEPT ![idx_refined - 1] = p.val,
                                              ![idx_refined] = p.val,
                                              ![idx_refined + 1] = value[i + 1]]
    /\ policy_refined' = [policy_refined EXCEPT ![idx_refined - 1] = p.policy_left,
                                                ![idx_refined] = p.policy_right]
    /\ endog_grid_refined' = [endog_grid_refined EXCEPT ![idx_refined - 1] = p.grid,
                                                        ![idx_refined] = p.grid,
                                                        ![idx_refined + 1] = endog_grid[i + 1]]
    /\ idx_refined' = idx_refined + 2
    /\ value_j' = p.val
    /\ endog_grid_j' = p.grid
    /\ policy_j' = p.policy_right
    /\ exog_grid_j' = RSub(p.grid, p.policy_right)

\* lines 379-396
write_kink_continues(p) ==
    /\ ~p.err
    /\ idx_refined + 1 < n_grid
    /\ value_refined' = [value_refined EXCEPT ![idx_refined - 1] = p.val,
                                              ![idx_refined] = p.val,
                                              ![idx_refined + 1] = value[i + 1]]
    /\ policy_refined' = [policy_refined EXCEPT ![idx_refined - 1] = p.policy_left,
                                                ![idx_refined] = p.policy_right,
                                                ![idx_refined + 1] = policy[i + 1]]
    /\ endog_grid_refined' = [endog_grid_refined EXCEPT ![idx_refined - 1] = p.grid,
                                                        ![idx_refined] = p.grid,
                                                        ![idx_refined + 1] = endog_grid[i + 1]]
    /\ idx_refined' = idx_refined + 2
    /\ value_j' = p.val
    /\ endog_grid_j' = p.grid
    /\ policy_j' = p.policy_right
    /\ exog_grid_j' = RSub(p.grid, p.policy_right)

KinkUpperBranchContinues_advancing_k ==
    /\ Deciding /\ Branch = "kink_continues"
    /\ taken("kink_continues")
    /\ write_kink_continues(KinkContinues)
    /\ value_k' = value_j /\ endog_grid_k' = endog_grid_j /\ policy_k' = policy_j
    /\ i' = i + 1
    /\ pc' = "scan"
    /\ UNCHANGED <<step, suboptimal_points>>
    /\ Frame

\* lines 350-396
KinkUpperBranchContinues ==
    /\ Deciding /\ Branch = "kink_continues"
    /\ taken("kink_continues")
    /\ write_kink_continues(KinkContinues)
    /\ i' = i + 1
    /\ pc' = "scan"
    /\ UNCHANGED <<step, suboptimal_points, value_k, endog_grid_k, policy_k>>
    /\ Frame

\* no branch of the if/elif chain applies: the iteration changes nothing
NoBranch ==
    /\ Deciding /\ Branch = "none"
    /\ taken("none")
    /\ i' = i + 1
    /\ pc' = "scan"
    /\ UNCHANGED <<step, value_refined, policy_refined, endog_grid_refined, suboptimal_points,
                   value_j, endog_grid_j, policy_j, exog_grid_j,
                   value_k, endog_grid_k, policy_k, idx_refined>>
    /\ Frame

\* the exception, if any, that ends the call in the current iteration
raises(br) ==
    IF br = "accept"
         THEN IF idx_refined >= n_grid THEN "IndexError" ELSE "none"
    ELSE IF br = "kink_ends"
         THEN IF KinkEnds.err THEN "ZeroDivisionError"
              ELSE IF idx_refined + 2 >= n_grid THEN "IndexError" ELSE "none"
    ELSE IF br = "kink_continues"
         THEN IF KinkContinues.err THEN "ZeroDivisionError"
              ELSE IF idx_refined + 1 >= n_grid THEN "IndexError" ELSE "none"
    ELSE "none"

\* ZeroDivisionError of the intersection, or IndexError of a write behind the
\* end of the refined arrays
Raise ==
    /\ Deciding
    /\ raises(Branch) # "none"
    /\ pc' = "raised"
    /\ error' = raises(Branch)
    /\ UNCHANGED <<outside_fues, caller, run, endog_grid, value, policy,
                   expected_value_zero_savings, first_result>>
    /\ UNCHANGED scan_locals

\* line 400 with the write index behind the end of the arrays
RaiseAtEnd ==
    /\ LoopDone
    /\ idx_refined >= n_grid
    /\ pc' = "raised"
    /\ error' = "IndexError"
    /\ UNCHANGED <<outside_fues, caller, run, endog_grid, value, policy,
                   expected_value_zero_savings, first_result>>
    /\ UNCHANGED scan_locals

Finish_copies_first_point ==
    /\ LoopDone
    /\ idx_refined < n_grid
    /\ value_refined' = [value_refined EXCEPT ![idx_refined] = value[0]]
    /\ endog_grid_refined' = [endog_grid_refined EXCEPT ![idx_refined] = endog_grid[0]]
    /\ policy_refined' = [policy_refined EXCEPT ![idx_refined] = policy[0]]
    /\ pc' = "done"
    /\ UNCHANGED <<step, suboptimal_points, value_j, endog_grid_j, policy_j, exog_grid_j,
                   value_k, endog_grid_k, policy_k, idx_refined, i, history>>
    /\ Frame

\* lines 400-404
Finish ==
    /\ LoopDone
    /\ idx_refined < n_grid
    /\ value_refined' = [value_refined EXCEPT ![idx_refined] = value[n_grid - 1]]
    /\ endog_grid_refined' = [endog_grid_refined EXCEPT ![idx_refined] = endog_grid[n_grid - 1]]
    /\ policy_refined' = [policy_refined EXCEPT ![idx_refined] = policy[n_grid - 1]]
    /\ pc' = "done"
    /\ UNCHANGED <<step, suboptimal_points, value_j, endog_grid_j, policy_j, exog_grid_j,
                   value_k, endog_grid_k, policy_k, idx_refined, i, history>>
    /\ Frame

----------------------------------------------------------------------------
(* FUES applied to its own result *)

n_valid(a) == Cardinality({m \in DOMAIN a : ~IsNaN(a[m])})
valid_prefix(a) ==
    LET first_nan == IF \E m \in DOMAIN a : IsNaN(a[m])
                     THEN CHOOSE m \in DOMAIN a : IsNaN(a[m]) /\ \A q \in 0..(m - 1) : ~IsNaN(a[q])
                     ELSE len(a)
    IN  [m \in 0..(first_nan - 1) |-> a[m]]

Reapply ==
    /\ pc = "done" /\ run = 1
    /\ first_result' = [endog_grid |-> endog_grid_refined, value |-> value_refined,
                        policy |-> policy_refined, history |-> history]
    /\ endog_grid' = valid_prefix(endog_grid_refined)
    /\ value' = valid_prefix(value_refined)
    /\ policy' = valid_prefix(policy_refined)
    /\ run' = 2
    /\ pc' = "fues"
    /\ UNCHANGED <<outside_fues, caller, error, expected_value_zero_savings>>
    /\ UNCHANGED scan_locals

----------------------------------------------------------------------------
(* determine_optimal_batch_size *)

RECURSIVE sum(_, _)
\* a[0] + ... + a[m - 1]
sum(a, m) == IF m = 0 THEN 0 ELSE sum(a, m - 1) + a[m - 1]

max(S) == CHOOSE x \in S : \A y \in S : y <= x
min(S) == CHOOSE x \in S : \A y \in S : x <= y

\* lines 296-301: the state-choices before the last two periods, and their ids
wo_last_two == {id \in DOMAIN state_choice_space : state_choice_space[id] < n_periods - 2}
state_choice_index_back == [m \in 0..(Cardinality(wo_last_two) - 1) |-> m]

\* lines 311-313
size_last_batch ==
    LET last == len(state_choice_index_back) - 1
    IN  Cardinality({id \in DOMAIN state_choice_space :
                        state_choice_space[id] = state_choice_space[last]})

\* the array in its own order
not_flipped(a) == a

\* np.flip
flip(a) == [m \in DOMAIN a |-> a[len(a) - 1 - m]]

\* np.arange(start, stop, step) for a positive step, as a set
arange(start, stop, by) ==
    {m \in start..(stop - 1) : (m - start) % by = 0}

\* np.split(a, indexes) for indexes inside a: the sections of a that start at
\* 0 and at each index, in order
split(a, indexes) ==
    LET starts == {0} \cup indexes
        section(m) ==
            LET stop == min({q \in starts \cup {len(a)} : q > m})
            IN  [q \in 0..(stop - m - 1) |-> a[m + q]]
        nth(k) == CHOOSE m \in starts : Cardinality({q \in starts : q < m}) = k
    IN  [k \in 0..(Cardinality(starts) - 1) |-> section(nth(k))]

\* lines 338-341: the child states of a batch, each once
unique_child_states(batch) ==
    UNION {{map_state_choice_to_child_states[batch[m]][e] :
                e \in DOMAIN map_state_choice_to_child_states[batch[m]]} : m \in DOMAIN batch}

\* lines 358-360: the state-choice ids of the child states of a batch
unique_state_choice_idxs_childs(batch) ==
    UNION {{map_state_choice_to_index[c][q] : q \in DOMAIN map_state_choice_to_index[c]} :
              c \in unique_child_states(batch)}

positive(S) == {id \in S : id > 0}

\* lines 363-365
min_state_choice_idx(batch) == min(positive(unique_state_choice_idxs_childs(batch)))

batch_max(batch) == max({batch[m] : m \in DOMAIN batch})

\* lines 296-317; breakpoint() of line 307 hands control to the debugger and
\* changes no variable
DetermineOptimalBatchSize ==
    /\ pc = "batch"
    /\ current_batch_size' = size_last_batch
    /\ batch_not_found' = TRUE
    /\ need_to_reduce_batchsize' = FALSE
    /\ pc' = "while"
    /\ UNCHANGED <<batches_to_check, child_state_choice_idxs_to_interpolate, batch_i>>
    /\ UNCHANGED <<model_structure, fues_data, later_parts, error>>

reduced_twice(size) == (((size * 95) \div 100) * 95) \div 100

\* int(current_batch_size * 0.95)
reduced(size) == (size * 95) \div 100

\* lines 318-335: one pass of the while loop up to the for loop; np.arange
\* raises for a step of 0
SplitIndexes ==
    /\ pc = "while" /\ batch_not_found
    /\ LET size == IF need_to_reduce_batchsize THEN reduced(current_batch_size)
                   ELSE current_batch_size
       IN  /\ current_batch_size' = size
           /\ need_to_reduce_batchsize' = FALSE
           /\ IF size = 0
              THEN /\ pc' = "raised" /\ error' = "ZeroDivisionError"
                   /\ UNCHANGED <<batches_to_check, child_state_choice_idxs_to_interpolate,
                                  batch_i>>
              ELSE /\ batches_to_check' =
                          split(flip(state_choice_index_back),
                                arange(size, len(state_choice_index_back), size))
                   /\ child_state_choice_idxs_to_interpolate' = <<>>
                   /\ batch_i' = 0
                   /\ pc' = "for"
                   /\ UNCHANGED error
    /\ UNCHANGED <<batch_not_found, model_structure, fues_data, later_parts>>

never_depends_on_batch(batch) == FALSE

\* line 379
depends_on_batch(batch) == batch_max(batch) > min_state_choice_idx(batch)

\* lines 337-379: an iteration of the for loop whose batch passes the check
CheckBatch ==
    /\ pc = "for" /\ batch_i < len(batches_to_check)
    /\ ~depends_on_batch(batches_to_check[batch_i])
    /\ child_state_choice_idxs_to_interpolate' =
          Append(child_state_choice_idxs_to_interpolate,
                 positive(unique_state_choice_idxs_childs(batches_to_check[batch_i])))
    /\ batch_i' = batch_i + 1
    /\ UNCHANGED <<pc, current_batch_size, need_to_reduce_batchsize, batch_not_found,
                   batches_to_check>>
    /\ UNCHANGED <<model_structure, fues_data, later_parts, error>>

\* the failing iteration without line 381
ReduceBatchSize_without_flag ==
    /\ pc = "for" /\ batch_i < len(batches_to_check)
    /\ depends_on_batch(batches_to_check[batch_i])
    /\ child_state_choice_idxs_to_interpolate' =
          Append(child_state_choice_idxs_to_interpolate,
                 positive(unique_state_choice_idxs_childs(batches_to_check[batch_i])))
    /\ batch_not_found' = TRUE
    /\ need_to_reduce_batchsize' = FALSE
    /\ pc' = "while"
    /\ UNCHANGED <<current_batch_size, batches_to_check, batch_i>>
    /\ UNCHANGED <<model_structure, fues_data, later_parts, error>>

\* lines 337-382: an iteration of the for loop whose batch fails the check
ReduceBatchSize ==
    /\ pc = "for" /\ batch_i < len(batches_to_check)
    /\ depends_on_batch(batches_to_check[batch_i])
    /\ child_state_choice_idxs_to_interpolate' =
          Append(child_state_choice_idxs_to_interpolate,
                 positive(unique_state_choice_idxs_childs(batches_to_check[batch_i])))
    /\ batch_not_found' = TRUE
    /\ need_to_reduce_batchsize' = TRUE
    /\ pc' = "while"
    /\ UNCHANGED <<current_batch_size, batches_to_check, batch_i>>
    /\ UNCHANGED <<model_structure, fues_data, later_parts, error>>

\* lines 384-395: the for loop ended without a break
ReturnBatches ==
    /\ pc = "for" /\ batch_i = len(batches_to_check)
    /\ ~need_to_reduce_batchsize
    /\ batch_not_found' = FALSE
    /\ pc' = "returned"
    /\ UNCHANGED <<current_batch_size, need_to_reduce_batchsize, batches_to_check,
                   child_state_choice_idxs_to_interpolate, batch_i>>
    /\ UNCHANGED <<model_structure, fues_data, later_parts, error>>

----------------------------------------------------------------------------
(* Part 3: the aggregation kernels                                         *)
(*   kernel 1: src/dcegm/marg_utilities_and_exp_value.py, lines 182-255    *)
(*   kernel 2: src/dcegm/egm/aggregate_marginal_utility.py, lines 7-78     *)
(*   kernel 3: src/dcegm/aggregate_policy_value.py, lines 131-155          *)
(*                                                                         *)
(* Floats are the rationals extended by NaN = <<0, 0>>, -inf = <<-1, 0>>   *)
(* and inf = <<1, 0>>, with the IEEE rules for 0/0, x/0, inf - inf and     *)
(* 0 * inf.  exp(x) of a finite x is kept as the symbol <<"exp", x>>,      *)
(* except that it is 0 when x is so negative that the float result is 0.   *)
(* A sum of exponentials is the set of pairs <<x, number of terms exp(x)>>.*)
(***************************************************************************)

\* exp(x) is 0.0 in double (and single) precision for every x <= -746
exp_underflow == 746

inf == <<1, 0>>
neg_inf == <<-1, 0>>
isnan(a) == a = NaN
isfinite(a) == a[2] # 0

\* a <= b for floats other than NaN
fleq(a, b) ==
    IF a = neg_inf \/ b = inf THEN TRUE
    ELSE IF a = inf \/ b = neg_inf THEN FALSE
    ELSE RLeq(a, b)

\* a - b
fsub(a, b) ==
    IF isnan(a) \/ isnan(b) THEN NaN
    ELSE IF ~isfinite(a) THEN (IF a = b THEN NaN ELSE a)
    ELSE IF ~isfinite(b) THEN (IF b = inf THEN neg_inf ELSE inf)
    ELSE RSub(a, b)

\* a / b for a finite b >= 0
fdiv(a, b) ==
    IF isnan(a) THEN NaN
    ELSE IF RIsZero(b)
         THEN IF a = inf \/ (isfinite(a) /\ RPos(a)) THEN inf
              ELSE IF isfinite(a) /\ RIsZero(a) THEN NaN
              ELSE neg_inf
    ELSE IF ~isfinite(a) THEN a
    ELSE RDiv(a, b)

\* jnp.nan_to_num(a, nan=value) of an array without infinite entries
nan_to_num(a, nan) == [c \in DOMAIN a |-> IF isnan(a[c]) THEN nan ELSE a[c]]

\* jnp.amax / np.amax: NaN when an entry is NaN
amax(a) ==
    IF \E c \in DOMAIN a : isnan(a[c]) THEN NaN
    ELSE a[CHOOSE c \in DOMAIN a : \A q \in DOMAIN a : fleq(a[q], a[c])]

\* jnp.nanmax: the maximum of the entries other than NaN, NaN when there is none
nanmax(a) ==
    LET present == {c \in DOMAIN a : ~isnan(a[c])}
    IN  IF present = {} THEN NaN
        ELSE a[CHOOSE c \in present : \A q \in present : fleq(a[q], a[c])]

nan_term == <<"nan">>
zero_term == <<"zero">>

\* jnp.exp / np.exp of a float that is not positive
exp(x) ==
    IF isnan(x) THEN nan_term
    ELSE IF x = neg_inf THEN zero_term
    ELSE IF RLeq(x, R(-exp_underflow)) THEN zero_term
    ELSE <<"exp", x>>

\* term * indicator for an indicator 0 or 1
masked(term, indicator) ==
    IF term = nan_term THEN nan_term
    ELSE IF indicator = 0 THEN zero_term
    ELSE term

\* the sum of exponentials without NaN: the exponents with their numbers of terms
collect(terms, C) ==
    {<<t[2], Cardinality({c \in C : terms[c] = t})>> :
        t \in {terms[c] : c \in {q \in C : terms[q] \notin {nan_term, zero_term}}}}

nan_sum == [nan |-> TRUE, terms |-> {}]

\* jnp.sum / np.sum of an array of terms
sum_terms(terms) ==
    IF \E c \in DOMAIN terms : terms[c] = nan_term THEN nan_sum
    ELSE [nan |-> FALSE, terms |-> collect(terms, DOMAIN terms)]

\* jnp.nansum of an array of terms
nansum_terms(terms) == [nan |-> FALSE, terms |-> collect(terms, DOMAIN terms)]

\* term / total: NaN for 0 / 0
quotient(term, total) ==
    IF term = nan_term \/ total.nan THEN nan_term
    ELSE IF total.terms = {} THEN nan_term
    ELSE IF term = zero_term THEN zero_term
    ELSE <<"frac", term[2], total.terms>>

RECURSIVE rsum(_, _)
\* the sum of f over the finite set C
rsum(f, C) ==
    IF C = {} THEN R(0)
    ELSE LET c == CHOOSE q \in C : TRUE IN RAdd(f[c], rsum(f, C \ {c}))

\* sum over C of probs[c] * weights[c], for probabilities without NaN that share
\* a denominator: per exponent the sum of the weights, over the denominator
weighted(probs, weights, C) ==
    LET fracs == {c \in C : probs[c] # zero_term}
    IN  IF fracs = {} THEN zero_term
        ELSE <<"frac",
               {<<x, rsum(weights, {c \in fracs : probs[c][2] = x})>> :
                    x \in {probs[c][2] : c \in fracs}},
               probs[CHOOSE c \in fracs : TRUE][3]>>

\* jnp.sum(probs * weights)
sum_weighted(probs, weights) ==
    IF \E c \in DOMAIN probs : probs[c] = nan_term \/ isnan(weights[c]) THEN nan_term
    ELSE weighted(probs, weights, DOMAIN probs)

\* jnp.nansum(probs * weights)
nansum_weighted(probs, weights) ==
    weighted(probs, weights,
             {c \in DOMAIN probs : probs[c] # nan_term /\ ~isnan(weights[c])})

\* result * weight for a finite positive weight
times(result, weight) ==
    IF result \in {nan_term, zero_term} THEN result
    ELSE <<"frac", {<<t[1], RMul(t[2], weight)>> : t \in result[2]}, result[3]>>

\* rescale_factor + scale * log(total): <<"num", float>> when the logarithm
\* is NaN, -inf or log(1) = 0, the symbol <<"logsum", rescale_factor, scale,
\* total>> otherwise
log_sum_formula(rescale_factor, scale, total) ==
    IF total.nan \/ isnan(rescale_factor) THEN <<"num", NaN>>
    ELSE IF total.terms = {}
         THEN IF RIsZero(scale) \/ rescale_factor = inf THEN <<"num", NaN>>
              ELSE <<"num", neg_inf>>
    ELSE IF total.terms = {<<R(0), 1>>} \/ RIsZero(scale) THEN <<"num", rescale_factor>>
    ELSE <<"logsum", rescale_factor, scale, total.terms>>

\* value * weight for a finite positive weight
times_value(v, weight) ==
    IF v[1] = "num"
    THEN <<"num", IF isfinite(v[2]) THEN RMul(v[2], weight) ELSE v[2]>>
    ELSE <<"logsum", IF isfinite(v[2]) THEN RMul(v[2], weight) ELSE v[2],
           RMul(v[3], weight), v[4]>>

\* kernel 1, lines 251-255
rescale_values_and_restrict_choices(vals, scale, indicators) ==
    LET rescale_factor == amax(vals)
        exp_values_scaled == [c \in DOMAIN vals |-> exp(fdiv(fsub(vals[c], rescale_factor), scale))]
    IN  [choice_restricted_exp_values |->
             [c \in DOMAIN vals |-> masked(exp_values_scaled[c], indicators[c])],
         rescale_factor |-> rescale_factor]

no_term == <<"none">>
NoTerms == [c \in {} |-> no_term]

\* what the actions of part 3 leave alone
outside_aggregation ==
    <<fues_data, batch_vars, egm_vars, state_space_vars, setup_vars, final_period_vars, error>>

\* kernel 1, lines 207-231
aggregate_marg_utilites_and_values_over_choices_and_weight ==
    /\ pc = "aggregate"
    /\ LET values_filtered == nan_to_num(values, neg_inf)
           marg_utilities_filtered == nan_to_num(marg_utilities, R(0))
           rescaled == rescale_values_and_restrict_choices(values_filtered, taste_shock_scale,
                                                           choice_set_indices)
           sum_exp_values == sum_terms(rescaled.choice_restricted_exp_values)
           probabilities ==
               [c \in DOMAIN values |->
                    quotient(rescaled.choice_restricted_exp_values[c], sum_exp_values)]
       IN  /\ choice_probabilities' = probabilities
           /\ child_state_marg_util' =
                  times(sum_weighted(probabilities, marg_utilities_filtered),
                        income_shock_weight)
           /\ child_state_exp_max_value' =
                  times_value(log_sum_formula(rescaled.rescale_factor, taste_shock_scale,
                                              sum_exp_values),
                              income_shock_weight)
    /\ pc' = "kernel 1"
    /\ UNCHANGED <<aggregation_inputs, choice_probs, marg_util, log_sum, logsum>>
    /\ UNCHANGED outside_aggregation

\* the values of the feasible choices of the state, in the order of the choices
value_state_choice_specific(vals, indicators) ==
    LET feasible == {c \in DOMAIN vals : indicators[c] = 1}
    IN  [m \in 0..(Cardinality(feasible) - 1) |->
             vals[CHOOSE c \in feasible : Cardinality({q \in feasible : q < c}) = m]]

\* the row of the state: for a feasible choice its index in the vector of
\* state-choices, for an infeasible choice an index outside the vector
reshape_state_choice_vec_to_mat(indicators) ==
    LET feasible == {c \in DOMAIN indicators : indicators[c] = 1}
    IN  [c \in DOMAIN indicators |->
             IF c \in feasible THEN Cardinality({q \in feasible : q < c})
             ELSE Cardinality(feasible)]

\* jnp.take(a, indices, mode="fill", fill_value=jnp.nan)
take_fill(a, indices) ==
    [c \in DOMAIN indices |-> IF indices[c] \in DOMAIN a THEN a[indices[c]] ELSE NaN]

\* kernel 2, lines 42-78, for one state and one income shock
aggregate_marg_utils_and_exp_values ==
    /\ pc = "aggregate"
    /\ LET row == reshape_state_choice_vec_to_mat(choice_set_indices)
           choice_values_per_state ==
               take_fill(value_state_choice_specific(values, choice_set_indices), row)
           max_value_per_state == nanmax(choice_values_per_state)
           rescaled_exponential ==
               [c \in DOMAIN row |->
                    exp(fdiv(fsub(choice_values_per_state[c], max_value_per_state),
                             taste_shock_scale))]
           sum_exp == nansum_terms(rescaled_exponential)
           probs == [c \in DOMAIN row |-> quotient(rescaled_exponential[c], sum_exp)]
           choice_marg_util_per_state ==
               take_fill(value_state_choice_specific(marg_utilities, choice_set_indices), row)
       IN  /\ choice_probs' = probs
           /\ marg_util' =
                  times(nansum_weighted(probs, choice_marg_util_per_state),
                        income_shock_weight)
           /\ log_sum' =
                  times_value(log_sum_formula(max_value_per_state, taste_shock_scale, sum_exp),
                              income_shock_weight)
    /\ pc' = "kernel 2"
    /\ UNCHANGED <<aggregation_inputs, choice_probabilities, child_state_marg_util,
                   child_state_exp_max_value, logsum>>
    /\ UNCHANGED outside_aggregation

\* kernel 3, lines 147-155, for one column of next_period_value
calc_log_sum ==
    /\ pc = "aggregate"
    /\ LET col_max == amax(values)
           exponentials ==
               [c \in DOMAIN values |-> exp(fdiv(fsub(values[c], col_max), taste_shock_scale))]
       IN  logsum' = log_sum_formula(col_max, taste_shock_scale, sum_terms(exponentials))
    /\ pc' = "kernel 3"
    /\ UNCHANGED <<aggregation_inputs, choice_probabilities, child_state_marg_util,
                   child_state_exp_max_value, choice_probs, marg_util, log_sum>>
    /\ UNCHANGED outside_aggregation

\* part 3 at rest
NoAggregation ==
    /\ choice_set_indices = EmptyArray /\ marg_utilities = EmptyArray
    /\ values = EmptyArray
    /\ income_shock_weight = R(1) /\ taste_shock_scale = R(1)
    /\ choice_probabilities = NoTerms /\ choice_probs = NoTerms
    /\ child_state_marg_util = no_term /\ child_state_exp_max_value = no_term
    /\ marg_util = no_term /\ log_sum = no_term /\ logsum = no_term

----------------------------------------------------------------------------
(* Calls *)

IsSorted(a) == \A m \in DOMAIN a : m = 0 \/ RLeq(a[m - 1], a[m])
IsStrictlyIncreasing(a) == \A m \in DOMAIN a : m = 0 \/ RLess(a[m - 1], a[m])

NoResult == [endog_grid |-> EmptyArray, value |-> EmptyArray, policy |-> EmptyArray,
             history |-> <<>>]

InitLocals ==
    /\ value_refined = EmptyArray /\ policy_refined = EmptyArray
    /\ endog_grid_refined = EmptyArray
    /\ suboptimal_points = EmptyArray
    /\ value_j = NaN /\ endog_grid_j = NaN /\ policy_j = NaN /\ exog_grid_j = NaN
    /\ value_k = NaN /\ endog_grid_k = NaN /\ policy_k = NaN
    /\ idx_refined = 0 /\ i = 0 /\ step = NoStep /\ history = <<>>

\* a call of fast_upper_envelope_wrapper with a raw EGM result (any order)
InitWrapper ==
    /\ pc = "wrapper" /\ caller = "wrapper"
    /\ \E n \in 2..MaxRawLen :
         /\ endog_grid \in [0..(n - 1) -> TiedGridDomain]
         /\ value \in [0..(n - 1) -> ValueDomain]
         /\ policy \in [0..(n - 1) -> PolicyDomain]
    /\ expected_value_zero_savings \in ValueDomain

\* the grids of the direct calls: ascending, either strictly or with repeated values
InputGrids(n) ==
    {a \in [0..(n - 1) -> GridDomain] : IsStrictlyIncreasing(a)}
    \cup (IF n <= MaxTiedLen
          THEN {a \in [0..(n - 1) -> TiedGridDomain] : IsSorted(a)}
          ELSE {})

\* a call of fast_upper_envelope
InitFues ==
    /\ pc = "fues" /\ caller = "fues"
    /\ \E n \in 3..MaxLen :
         /\ endog_grid \in InputGrids(n)
         /\ value \in [0..(n - 1) -> ValueDomain]
         /\ policy \in [0..(n - 1) -> PolicyDomain]
    /\ expected_value_zero_savings = R(0)

\* part 2 at rest
NoModel ==
    /\ n_periods = 0
    /\ state_space = EmptyArray /\ state_choice_space = EmptyArray
    /\ map_state_choice_to_index = EmptyArray
    /\ map_state_choice_to_child_states = EmptyArray

InitBatchLocals ==
    /\ current_batch_size = 0
    /\ need_to_reduce_batchsize = FALSE /\ batch_not_found = FALSE
    /\ batches_to_check = EmptyArray
    /\ child_state_choice_idxs_to_interpolate = <<>>
    /\ batch_i = 0

----------------------------------------------------------------------------
(* Part 4: the EGM step (src/dcegm/egm.py)                                 *)

\* a @ b for two vectors over the same indices
dot(a, b) == rsum([e \in DOMAIN a |-> RMul(a[e], b[e])], DOMAIN a)

\* the user's inverse marginal utility: "reciprocal" is x -> 1 / x (CRRA with
\* theta = 1), "inverse_marginal_utility_crra" is the toy model's
\* (marginal_utility * beta) ** (-1 / theta) for theta = 1
inverse_marginal_utility(callback, x, parameters) ==
    IF callback = "reciprocal" THEN RDiv(R(1), x)
    ELSE RDiv(R(1), RMul(x, parameters.beta))

solve_euler_equation_without_interest(marg_utils, emax, transition_probs, callback, parameters) ==
    [policy |-> inverse_marginal_utility(callback, RMul(dot(transition_probs, marg_utils), parameters.beta), parameters), expected_value |-> dot(transition_probs, emax)]

\* lines 168-175
solve_euler_equation(marg_utils, emax, transition_probs, callback, parameters) ==
    LET marginal_utility == dot(transition_probs, marg_utils)
        rhs_euler == RMul(RMul(marginal_utility, RAdd(R(1), parameters.interest_rate)),
                          parameters.beta)
    IN  [policy |-> inverse_marginal_utility(callback, rhs_euler, parameters),
         expected_value |-> dot(transition_probs, emax)]

\* a[:-1] and a[-1] of a sequence
but_last(a) == SubSeq(a, 1, Len(a) - 1)
last(a) == a[Len(a)]

\* lines 112-129, for one state-choice and one savings point
compute_optimal_policy_and_value(marg_utils, emax, savings, row, callback, transition, parameters) ==
    LET state_vec == but_last(row)
        choice == last(row)
        transition_probs == transition[state_vec]
        solved == solve_euler_equation(marg_utils, emax, transition_probs, callback, parameters)
    IN  [endog_grid |-> RAdd(savings, solved.policy),
         policy |-> solved.policy,
         value |-> compute_value(solved.policy, solved.expected_value, choice),
         expected_value |-> solved.expected_value]

\* lines 211-219: jnp.take(next, map[idx], axis=0) for indices inside the arrays
get_post_decision_marg_utils_and_emax(next, idx_state_choice_combs, map) ==
    [m \in DOMAIN idx_state_choice_combs |->
        [e \in DOMAIN map[idx_state_choice_combs[m]] |-> next[map[idx_state_choice_combs[m]][e]]]]

\* what the actions of part 4 leave alone
outside_egm ==
    <<caller, run, expected_value_zero_savings, first_result, scan_locals, batch_vars,
      aggregation_vars, state_space_vars, setup_vars, final_period_vars, error>>

\* lines 24-57: both vmaps, over the state-choices and over the savings grid
calculate_candidate_solutions_from_euler_equation ==
    /\ pc = "egm"
    /\ LET feasible_marg_utils ==
               get_post_decision_marg_utils_and_emax(marg_util_next, idx_state_choices_period,
                                                     map_state_to_post_decision_child_nodes)
           feasible_emax ==
               get_post_decision_marg_utils_and_emax(emax_next, idx_state_choices_period,
                                                     map_state_to_post_decision_child_nodes)
           solved(m, a) ==
               compute_optimal_policy_and_value(
                   [e \in DOMAIN feasible_marg_utils[m] |-> feasible_marg_utils[m][e][a]],
                   [e \in DOMAIN feasible_emax[m] |-> feasible_emax[m][e][a]],
                   exogenous_savings_grid[a], state_choice_mat[m],
                   compute_inverse_marginal_utility, transition_vector_by_state, params)
           grid == DOMAIN exogenous_savings_grid
       IN  /\ endog_grid' = [m \in DOMAIN state_choice_mat |-> [a \in grid |-> solved(m, a).endog_grid]]
           /\ value' = [m \in DOMAIN state_choice_mat |-> [a \in grid |-> solved(m, a).value]]
           /\ policy' = [m \in DOMAIN state_choice_mat |-> [a \in grid |-> solved(m, a).policy]]
           /\ expected_value' =
                  [m \in DOMAIN state_choice_mat |-> [a \in grid |-> solved(m, a).expected_value]]
    /\ pc' = "candidates"
    /\ UNCHANGED <<egm_inputs, outside_egm>>

NoParams == [interest_rate |-> R(0), beta |-> R(1)]

\* part 4 at rest
NoEgm ==
    /\ marg_util_next = EmptyArray /\ emax_next = EmptyArray
    /\ idx_state_choices_period = EmptyArray
    /\ map_state_to_post_decision_child_nodes = EmptyArray
    /\ exogenous_savings_grid = EmptyArray
    /\ transition_vector_by_state = EmptyArray
    /\ state_choice_mat = EmptyArray
    /\ compute_inverse_marginal_utility = "none"
    /\ params = NoParams
    /\ expected_value = EmptyArray

----------------------------------------------------------------------------
(* Part 5: create_state_space                                              *)
(* (src/dcegm/pre_processing/model_structure/state_space.py)               *)
(*                                                                         *)
(* A state is <<period, lagged_choice, exogenous state>>; the models have  *)
(* no further endogenous state variable and one exogenous state.  The      *)
(* sparsity condition is the set of the states it declares valid;          *)
(* options.proxy is the state the user names as the proxy of each state    *)
(* (the state itself when it has none).                                    *)

\* the slot of a state that is not part of the state space
absent == -9999

\* line 138
state_of(p, choice) == <<p, choice, 0>>

\* all states the loops of lines 128-134 visit
candidate_states(opts) ==
    {state_of(p, choice) : p \in 0..(opts.n_periods - 1), choice \in 0..(opts.n_choices - 1)}

\* lines 96-97: the proxy function create_state_space applies returns its argument
dummy_func_proxy(state_dict) == state_dict

\* position of an element in a sequence without repetitions, counted from 0
index_in(list, x) == (CHOOSE m \in 1..Len(list) : list[m] = x) - 1

\* create_indexer_for_space: the dense index from every state of the
\* Cartesian product of the state ranges to its row in the state space
create_indexer_for_space(space, opts) ==
    [state \in candidate_states(opts) |->
        IF \E m \in 1..Len(space) : space[m] = state THEN index_in(space, state) ELSE absent]

\* lines 214-229: numpy assigns the slots in order, so the last assignment to a
\* slot stays
create_indexer_inclucing_proxies(map, proxied_from, proxied_to) ==
    [state \in DOMAIN map |->
        IF \E m \in 1..Len(proxied_from) : proxied_from[m] = state
        THEN LET m == CHOOSE q \in 1..Len(proxied_from) :
                          /\ proxied_from[q] = state
                          /\ \A r \in (q + 1)..Len(proxied_from) : proxied_from[r] # state
             IN  map[proxied_to[m]]
        ELSE map[state]]

\* what the actions of part 5 leave alone
outside_state_space ==
    <<fues_data, batch_vars, aggregation_vars, egm_vars, setup_vars, final_period_vars>>

\* lines 128-134: the next iteration of the nested loops
advance ==
    IF lagged_choice + 1 < options.n_choices
    THEN period' = period /\ lagged_choice' = lagged_choice + 1
    ELSE period' = period + 1 /\ lagged_choice' = 0

\* lines 131-173: one iteration of the innermost loop
VisitState ==
    /\ pc = "create_state_space" /\ period < options.n_periods
    /\ LET state == state_of(period, lagged_choice)
           state_dict == state
           state_is_valid == state \in options.sparsity_condition
           state_dict_of_proxy == dummy_func_proxy(state_dict)
           is_state_proxied == state_dict_of_proxy # state_dict
       IN  IF is_state_proxied
           THEN IF state_is_valid
                THEN /\ pc' = "raised" /\ error' = "ValueError"
                     /\ UNCHANGED state_space_locals
                ELSE /\ proxies_exist' = TRUE
                     /\ list_of_states_proxied_from' = Append(list_of_states_proxied_from, state)
                     /\ list_of_states_proxied_to' =
                            Append(list_of_states_proxied_to, state_dict_of_proxy)
                     /\ advance
                     /\ UNCHANGED <<pc, error, state_space_list>>
           ELSE /\ state_space_list' =
                       IF state_is_valid THEN Append(state_space_list, state)
                       ELSE state_space_list
                /\ advance
                /\ UNCHANGED <<pc, error, list_of_states_proxied_from,
                               list_of_states_proxied_to, proxies_exist>>
    /\ UNCHANGED <<options, map_state_to_index, map_child_state_to_index>>
    /\ UNCHANGED outside_state_space

\* lines 175-207
ReturnStateSpace ==
    /\ pc = "create_state_space" /\ period = options.n_periods
    /\ LET indexer == create_indexer_for_space(state_space_list, options)
       IN  /\ map_state_to_index' = indexer
           /\ map_child_state_to_index' =
                  IF proxies_exist
                  THEN create_indexer_inclucing_proxies(indexer, list_of_states_proxied_from,
                                                        list_of_states_proxied_to)
                  ELSE indexer
    /\ pc' = "state space"
    /\ UNCHANGED <<options, state_space_locals, error>>
    /\ UNCHANGED outside_state_space

NoOptions == [n_periods |-> 0, n_choices |-> 0, sparsity_condition |-> {}, proxy |-> EmptyArray]

InitStateSpaceLocals ==
    /\ period = 0 /\ lagged_choice = 0
    /\ state_space_list = <<>>
    /\ list_of_states_proxied_from = <<>> /\ list_of_states_proxied_to = <<>>
    /\ proxies_exist = FALSE
    /\ map_state_to_index = EmptyArray /\ map_child_state_to_index = EmptyArray

\* part 5 at rest
NoStateSpace == options = NoOptions /\ InitStateSpaceLocals

----------------------------------------------------------------------------
(* Part 6: setup_model, setup_and_save_model, load_and_setup_model and     *)
(* process_tuning_parameters (src/dcegm/pre_processing/setup_model.py)     *)
(*                                                                         *)
(* options is the nested dictionary [state_space |-> [n_periods, choices], *)
(* model_params |-> [n_grid_points], tuning_params |-> ...]; a dictionary  *)
(* with optional keys is a function on the keys it has.  The functions     *)
(* setup_model imports from modules outside src/ are modelled from the     *)
(* specification.                                                          *)

default_extra_wealth_grid_factor == <<1, 5>>

\* check_options: a configuration error for fewer than two periods; the
\* tuning parameters get their defaults
check_options(opts) ==
    IF opts.state_space.n_periods < 2 THEN [error |-> "ValueError"]
    ELSE [error |-> "none",
          options |->
              [opts EXCEPT !.tuning_params =
                  [key \in {"extra_wealth_grid_factor", "n_constrained_points_to_add"} |->
                      IF key \in DOMAIN opts.tuning_params THEN opts.tuning_params[key]
                      ELSE IF key = "extra_wealth_grid_factor"
                           THEN default_extra_wealth_grid_factor
                           ELSE R(opts.model_params.n_grid_points \div 10)]]]

\* process_model_functions: the callbacks in the calling convention of the solver
process_model_functions(opts, functions) ==
    [functions |-> functions, n_choices |-> opts.state_space.choices]

\* create_state_space_and_choice_objects: the states <<period, lagged_choice>>
\* in the order of their ids, and the exogenous state space
create_state_space_and_choice_objects(opts, model_funcs) ==
    [state_space |->
         [id \in 0..(opts.state_space.n_periods * opts.state_space.choices - 1) |->
              <<id \div opts.state_space.choices, id % opts.state_space.choices>>],
     exog_state_space |-> <<0>>,
     exog_states_names |-> <<>>]

\* create_exog_state_mapping
create_exog_state_mapping(exog_state_space, exog_names) ==
    <<"exog_state_mapping", exog_state_space, exog_names>>

\* create_batches_and_information as setup_model calls it, lines 71-74: what
\* it returns is a function of the model structure and the options.  The
\* batches are the subject of part 2; here the state-choices of the periods
\* before the last two form one batch.
create_batches_and_information(structure, opts) ==
    LET n_state_choices == len(structure.state_space) * opts.state_space.choices
    IN  IF opts.state_space.n_periods = 2
        THEN [two_period_model |-> TRUE, n_state_choices |-> n_state_choices]
        ELSE [two_period_model |-> FALSE,
              batches_cover_all |-> TRUE,
              batches_state_choice_idx |->
                  <<[id \in 0..(n_state_choices
                                - 2 * opts.state_space.choices * opts.state_space.choices - 1)
                        |-> id]>>]

\* lines 48-81, for options check_options accepted
setup_model(opts, functions) ==
    LET model_funcs == process_model_functions(opts, functions)
        structure == create_state_space_and_choice_objects(opts, model_funcs)
        exog_state_mapping ==
            create_exog_state_mapping(structure.exog_state_space,
                                      structure.exog_states_names)
    IN  [model_funcs |-> [model_funcs |-> model_funcs, exog_state_mapping |-> exog_state_mapping],
         model_structure |-> structure,
         batch_info |-> create_batches_and_information(structure, opts)]

dict_to_save_with_model_funcs(model) == model

\* lines 109-112
dict_to_save(model) ==
    [model_structure |-> model.model_structure, batch_info |-> model.batch_info]

\* the keys of a dictionary in the order pickle writes them: the order of insertion
RECURSIVE in_order(_, _)
in_order(keys, order) ==
    IF order = <<>> THEN <<>>
    ELSE (IF order[1] \in keys THEN <<order[1]>> ELSE <<>>) \o in_order(keys, Tail(order))

key_order == <<"model_funcs", "model_structure", "batch_info">>

\* pickle.dump: the stream of the keys and values of the dictionary
dumps(dict) ==
    LET keys == in_order(DOMAIN dict, key_order)
    IN  [m \in 1..Len(keys) |-> <<keys[m], dict[keys[m]]>>]

\* pickle.load: the dictionary of a stream
loads(bytes) ==
    [key \in {bytes[m][1] : m \in 1..Len(bytes)} |->
        bytes[CHOOSE m \in 1..Len(bytes) : bytes[m][1] = key][2]]

NoFile == <<"no file">>
NoModelSetup == [model_funcs |-> "none"]
Paths == {"model.pkl", "other.pkl"}
Functions == {"utility functions", "other utility functions"}

\* what the actions of part 6 leave alone
outside_setup ==
    <<fues_data, batch_vars, aggregation_vars, egm_vars, final_period_vars, options,
      state_space_locals, map_state_to_index, map_child_state_to_index>>

\* a call of setup_model, lines 48-81
SetupModel ==
    /\ pc = "setup_model"
    /\ \E functions \in Functions :
         /\ utility_functions' = functions
         /\ LET checked == check_options(options)
            IN  IF checked.error # "none"
                THEN /\ pc' = "raised" /\ error' = checked.error
                     /\ UNCHANGED model_setup
                ELSE /\ model_setup' = setup_model(checked.options, functions)
                     /\ pc' = "setup_and_save_model"
                     /\ UNCHANGED error
    /\ UNCHANGED <<files, path, model_after_saving, model_after_loading, tuned_options>>
    /\ UNCHANGED outside_setup

\* a call of setup_and_save_model, lines 99-115
SetupAndSaveModel ==
    /\ pc = "setup_and_save_model"
    /\ \E functions \in Functions, target \in Paths :
         LET model == setup_model(check_options(options).options, functions)
         IN  /\ utility_functions' = functions
             /\ path' = target
             /\ files' = [files EXCEPT ![target] = dumps(dict_to_save(model))]
             /\ model_after_saving' = model
    /\ pc' = "load_and_setup_model"
    /\ UNCHANGED <<model_setup, model_after_loading, tuned_options, error>>
    /\ UNCHANGED outside_setup

\* a call of load_and_setup_model, lines 127-147
LoadAndSetupModel ==
    /\ pc = "load_and_setup_model"
    /\ \E functions \in Functions, source \in Paths :
         /\ utility_functions' = functions
         /\ path' = source
         /\ IF files[source] = NoFile
            THEN /\ pc' = "raised" /\ error' = "FileNotFoundError"
                 /\ UNCHANGED model_after_loading
            ELSE LET model == loads(files[source])
                     model_funcs ==
                         process_model_functions(check_options(options).options, functions)
                 IN  /\ model_after_loading' =
                            [key \in DOMAIN model \cup {"model_funcs"} |->
                                IF key = "model_funcs"
                                THEN [model_funcs |-> model_funcs,
                                      exog_state_mapping |->
                                          create_exog_state_mapping(
                                              model.model_structure.exog_state_space,
                                              model.model_structure.exog_states_names)]
                                ELSE model[key]]
                     /\ pc' = "loaded"
                     /\ UNCHANGED error
    /\ UNCHANGED <<files, model_setup, model_after_saving, tuned_options>>
    /\ UNCHANGED outside_setup

\* the flat dictionary of the grid and tuning parameters
flat(opts) ==
    [key \in {"n_grid_points"} \cup DOMAIN opts.tuning_params |->
        IF key = "n_grid_points" THEN R(opts.model_params.n_grid_points)
        ELSE opts.tuning_params[key]]

\* lines 158-161, for a dictionary that has the three keys
too_many_points(opts) ==
    RLess(RMul(opts["n_grid_points"], RAdd(R(1), opts["extra_wealth_grid_factor"])),
          RAdd(opts["n_grid_points"], opts["n_constrained_points_to_add"]))

\* lines 152-165
process_tuning_parameters(opts) ==
    LET with_factor ==
            [key \in DOMAIN opts \cup {"extra_wealth_grid_factor"} |->
                IF key \in DOMAIN opts THEN opts[key] ELSE default_extra_wealth_grid_factor]
    IN  IF "n_constrained_points_to_add" \notin DOMAIN opts THEN [error |-> "KeyError"]
        ELSE IF too_many_points(with_factor) THEN [error |-> "ValueError"]
        ELSE [error |-> "none", options |-> with_factor]

\* a call of process_tuning_parameters with the flat dictionary of the options
ProcessTuningParameters ==
    /\ pc = "setup_model"
    /\ LET processed == process_tuning_parameters(flat(options))
       IN  IF processed.error # "none"
           THEN /\ pc' = "raised" /\ error' = processed.error
                /\ UNCHANGED tuned_options
           ELSE /\ tuned_options' = processed.options
                /\ pc' = "processed"
                /\ UNCHANGED error
    /\ UNCHANGED <<files, path, utility_functions, model_setup, model_after_saving,
                   model_after_loading>>
    /\ UNCHANGED outside_setup

\* part 6 at rest
NoSetup ==
    /\ files = [target \in Paths |-> NoFile]
    /\ path = "none" /\ utility_functions = "none"
    /\ model_setup = NoModelSetup /\ model_after_saving = NoModelSetup
    /\ model_after_loading = NoModelSetup
    /\ tuned_options = EmptyArray

----------------------------------------------------------------------------
(* Part 7: solve_final_period (src/dcegm/final_period.py)                  *)
(*                                                                         *)
(* Arrays are jax arrays: functions on 0..(n - 1), nested for more than    *)
(* one axis.  The callback is kept as the call with its arguments.         *)

\* int of a float that is not negative
int(x) == x[1] \div x[2]

\* a[:, :, index] of a jax array: an index past the end reads the last entry
take_draw(a, index) ==
    [m \in DOMAIN a |-> [g \in DOMAIN a[m] |->
        a[m][g][IF index < len(a[m][g]) THEN index ELSE len(a[m][g]) - 1]]]

\* jnp.full((rows, columns), fill)
full(rows, columns, fill) == [m \in 0..(rows - 1) |-> [g \in 0..(columns - 1) |-> fill]]

\* jnp.append(a, b, axis=1)
append_columns(a, b) == [m \in DOMAIN a |-> append(a[m], b[m])]

\* lines 89-97: the first two of the three results of the callback
calculate_final_period_solution_for_each_gridpoint(state_choice_vec, resources, parameters, callback) ==
    [marg_util |-> <<"marginal utility", callback, state_choice_vec, resources, parameters>>,
     value |-> <<"value", callback, state_choice_vec, resources, parameters>>]

\* (n + 1) // 2
middle_index(n_draws) == (n_draws + 1) \div 2

\* line 63: int(n + 1 / 2), the division first
middle_of_draws(n_draws) == int(RAdd(R(n_draws), RDiv(R(1), R(2))))

nans_to_add_without_truncation(rows, columns) == full(rows, (columns + 4) \div 5, NaN)

\* lines 69-71: int(columns * 0.2) columns of NaN; the double 0.2 is just
\* above 1/5, so the product is never below the exact one
nans_to_add(rows, columns) == full(rows, int(RMul(R(columns), <<1, 5>>)), NaN)

\* what solve_final_period leaves alone
outside_final_period ==
    <<caller, run, expected_value_zero_savings, first_result, scan_locals, value, policy,
      batch_vars, aggregation_vars, egm_vars, state_space_vars, setup_vars, error>>

\* lines 40-86
solve_final_period ==
    /\ pc = "solve_final_period"
    /\ LET resources_final_period ==
               [m \in DOMAIN state_objects_final_period.idx_parent_states |->
                   resources_beginning_of_period[state_objects_final_period.idx_parent_states[m]]]
           solution ==
               [m \in DOMAIN resources_final_period |->
                   [g \in DOMAIN resources_final_period[m] |->
                       [d \in DOMAIN resources_final_period[m][g] |->
                           calculate_final_period_solution_for_each_gridpoint(
                               state_objects_final_period.state_choice_mat[m],
                               resources_final_period[m][g][d], params,
                               compute_final_period)]]]
           value_of_draws ==
               [m \in DOMAIN solution |-> [g \in DOMAIN solution[m] |->
                   [d \in DOMAIN solution[m][g] |-> solution[m][g][d].value]]]
           draw == middle_of_draws(len(value_of_draws[0][0]))
           value_calc == take_draw(value_of_draws, draw)
           resources_to_save == take_draw(resources_final_period, draw)
           padding == nans_to_add(len(resources_to_save), len(resources_to_save[0]))
       IN  /\ marg_util_interpolated' =
                 [m \in DOMAIN solution |-> [g \in DOMAIN solution[m] |->
                     [d \in DOMAIN solution[m][g] |-> solution[m][g][d].marg_util]]]
           /\ value_interpolated' = value_of_draws
           /\ policy_left' = append_columns(resources_to_save, padding)
           /\ policy_right' = append_columns(resources_to_save, padding)
           /\ endog_grid' = append_columns(resources_to_save, padding)
           /\ value_final' = append_columns(value_calc, padding)
    /\ pc' = "final period"
    /\ UNCHANGED final_period_inputs
    /\ UNCHANGED outside_final_period

\* part 7 at rest
NoFinalPeriod ==
    /\ state_objects_final_period = [idx_parent_states |-> EmptyArray, state_choice_mat |-> EmptyArray]
    /\ compute_final_period = "none"
    /\ resources_beginning_of_period = EmptyArray
    /\ value_final = EmptyArray /\ policy_left = EmptyArray /\ policy_right = EmptyArray
    /\ marg_util_interpolated = EmptyArray /\ value_interpolated = EmptyArray

\* the parts after part 2 at rest
NoLaterParts == NoAggregation /\ NoEgm /\ NoStateSpace /\ NoSetup /\ NoFinalPeriod

FuesInit ==
    /\ InitWrapper \/ InitFues
    /\ run = 1 /\ error = "none" /\ first_result = NoResult
    /\ InitLocals
    /\ NoModel /\ InitBatchLocals
    /\ NoLaterParts

\* a call of fast_upper_envelope_wrapper with a long raw EGM result: the grid
\* rises by 1 per point from endog_grid[0] = first, except that one point
\* (the second or the last) may hold a lower value
AugmentInit ==
    /\ pc = "wrapper" /\ caller = "wrapper"
    /\ \E n \in 2..MaxAugmentLen, first \in 1..2, low_value \in 0..1 : \E low \in {0, 1, n - 1} :
         /\ endog_grid = [m \in 0..(n - 1) |->
                            IF m = low /\ m # 0 THEN R(low_value) ELSE R(first + m)]
         /\ value = [m \in 0..(n - 1) |-> R(m % 2)]
         /\ policy = [m \in 0..(n - 1) |-> R(m % 3)]
    /\ expected_value_zero_savings \in ValueDomain
    /\ run = 1 /\ error = "none" /\ first_result = NoResult
    /\ InitLocals
    /\ NoModel /\ InitBatchLocals
    /\ NoLaterParts

\* the wrapper up to its call of fast_upper_envelope
AugmentNext == Wrapper

\* a call of fast_upper_envelope long enough for the ring to hold discarded
\* points that lie left of the last accepted one: the grid rises by 1 per
\* point, the last value repeated or not; values are 0 or 1 and policies
\* 0 or 2, so that neighbours are either on one branch or a jump apart; the
\* first point is the one the wrapper prepends, (0, 0, 0)
ScanInit ==
    /\ pc = "fues" /\ caller = "fues"
    /\ \E n \in 6..MaxScanLen :
         /\ \E tied \in BOOLEAN :
               endog_grid = [m \in 0..(n - 1) |-> IF tied /\ m = n - 1 THEN R(m - 1) ELSE R(m)]
         /\ value \in {a \in [0..(n - 1) -> {R(0), R(1)}] : a[0] = R(0)}
         /\ policy \in {a \in [0..(n - 1) -> {R(0), R(2)}] : a[0] = R(0)}
    /\ expected_value_zero_savings = R(0)
    /\ run = 1 /\ error = "none" /\ first_result = NoResult
    /\ InitLocals
    /\ NoModel /\ InitBatchLocals
    /\ NoLaterParts

\* one call of fast_upper_envelope
ScanNext ==
    \/ FastUpperEnvelope
    \/ Evaluate
    \/ RaiseInScan
    \/ Discard
    \/ Accept
    \/ KinkUpperBranchEnds
    \/ KinkUpperBranchContinues
    \/ NoBranch
    \/ Raise
    \/ RaiseAtEnd
    \/ Finish

FuesNext ==
    \/ Wrapper
    \/ FastUpperEnvelope
    \/ Evaluate
    \/ RaiseInScan
    \/ Discard
    \/ Accept
    \/ KinkUpperBranchEnds
    \/ KinkUpperBranchContinues
    \/ NoBranch
    \/ Raise
    \/ RaiseAtEnd
    \/ Finish
    \/ Reapply

\* part 1 at rest
NoFues ==
    /\ caller = "none" /\ run = 1 /\ first_result = NoResult
    /\ endog_grid = EmptyArray /\ value = EmptyArray /\ policy = EmptyArray
    /\ expected_value_zero_savings = R(0)
    /\ InitLocals

\* the numbers of choices of the states of one period
Shapes == UNION {[0..(k - 1) -> 1..MaxChoices] : k \in 1..MaxStates}

\* the states of the periods 0..n-1 in period order, each with its number of
\* choices, for shape[t] the numbers of choices of the states of period t
RECURSIVE states_of(_, _)
states_of(shape, n) ==
    IF n = 0 THEN <<>>
    ELSE states_of(shape, n - 1) \o
         [k \in 1..len(shape[n - 1]) |-> [period |-> n - 1, n_choices |-> shape[n - 1][k - 1]]]

\* the model structure of a model whose states are the sequence states: the
\* state-choices are numbered state by state, choice by choice
structure_of(states) ==
    LET n_choices == [m \in 0..(Len(states) - 1) |-> states[m + 1].n_choices]
        first(m) == sum(n_choices, m)
    IN  [state_space |-> [m \in DOMAIN n_choices |-> states[m + 1].period],
         map_state_choice_to_index |->
             [m \in DOMAIN n_choices |-> [q \in 0..(n_choices[m] - 1) |-> first(m) + q]],
         state_choice_space |->
             [id \in 0..(sum(n_choices, len(n_choices)) - 1) |->
                 states[(CHOOSE m \in DOMAIN n_choices :
                            first(m) <= id /\ id < first(m) + n_choices[m]) + 1].period]]

\* the maps from the ids below n to rows of n_exog child states, the child
\* states of a state-choice of period t being states of period t + 1
RECURSIVE child_maps(_, _, _)
child_maps(structure, n_exog, n) ==
    IF n = 0 THEN {EmptyArray}
    ELSE LET next == {m \in DOMAIN structure.state_space :
                         structure.state_space[m] = structure.state_choice_space[n - 1] + 1}
         IN  {[id \in 0..(n - 1) |-> IF id = n - 1 THEN row ELSE f[id]] :
                 f \in child_maps(structure, n_exog, n - 1),
                 row \in [0..(n_exog - 1) -> next]}

\* the rows of the last two periods are not read by determine_optimal_batch_size
ChildMaps(structure, periods) ==
    LET n == Cardinality({id \in DOMAIN structure.state_choice_space :
                             structure.state_choice_space[id] < periods - 2})
    IN  UNION {child_maps(structure, n_exog, n) : n_exog \in 1..MaxExog}

\* a call of determine_optimal_batch_size for a model of at least three periods
BatchInit ==
    /\ pc = "batch" /\ error = "none"
    /\ \E periods \in 3..MaxPeriods : \E shape \in [0..(periods - 2) -> Shapes] :
         LET structure ==
                 structure_of(states_of(shape, periods - 1)
                              \o <<[period |-> periods - 1, n_choices |-> 1]>>)
         IN  /\ n_periods = periods
             /\ state_space = structure.state_space
             /\ state_choice_space = structure.state_choice_space
             /\ map_state_choice_to_index = structure.map_state_choice_to_index
             /\ map_state_choice_to_child_states \in ChildMaps(structure, periods)
    /\ InitBatchLocals
    /\ caller = "none" /\ run = 1 /\ first_result = NoResult
    /\ endog_grid = EmptyArray /\ value = EmptyArray /\ policy = EmptyArray
    /\ expected_value_zero_savings = R(0)
    /\ InitLocals
    /\ NoLaterParts

\* the map that sends every state-choice before the last two periods to one
\* child state, the first or the last state of the following period
child_map_to(structure, periods, to_last) ==
    [id \in {q \in DOMAIN structure.state_choice_space :
                structure.state_choice_space[q] < periods - 2} |->
        LET next == {m \in DOMAIN structure.state_space :
                        structure.state_space[m] = structure.state_choice_space[id] + 1}
        IN  one(IF to_last THEN max(next) ELSE min(next))]

\* the periods explored under fairness: the first state has every choice
FairShapes == {shape \in Shapes : shape[0] = MaxChoices}

\* the calls of determine_optimal_batch_size explored under fairness
BatchFairInit ==
    /\ pc = "batch" /\ error = "none"
    /\ \E periods \in 3..MaxFairPeriods : \E shape \in [0..(periods - 2) -> FairShapes] :
         LET structure ==
                 structure_of(states_of(shape, periods - 1)
                              \o <<[period |-> periods - 1, n_choices |-> 1]>>)
         IN  /\ n_periods = periods
             /\ state_space = structure.state_space
             /\ state_choice_space = structure.state_choice_space
             /\ map_state_choice_to_index = structure.map_state_choice_to_index
             /\ map_state_choice_to_child_states \in
                    {child_map_to(structure, periods, to_last) : to_last \in BOOLEAN}
    /\ InitBatchLocals
    /\ NoFues
    /\ NoLaterParts

BatchNext ==
    \/ DetermineOptimalBatchSize
    \/ SplitIndexes
    \/ CheckBatch
    \/ ReduceBatchSize
    \/ ReturnBatches

MaxAggregatedChoices == 3       \* a state has 2..MaxAggregatedChoices choices

\* the floats drawn for the choice-specific values and the taste shock scale
ChoiceValues == {R(0), R(1), R(2), NaN}
TasteShockScales == {R(0), <<1, 1000>>, R(1)}

\* a call of one of the aggregation kernels for one child state, one savings
\* point and one income shock
AggregationInit ==
    /\ pc = "aggregate" /\ error = "none"
    /\ \E n \in 2..MaxAggregatedChoices :
         /\ choice_set_indices \in [0..(n - 1) -> {0, 1}]
         /\ marg_utilities \in [0..(n - 1) -> {R(1), R(2)}]
         /\ values \in [0..(n - 1) -> ChoiceValues]
    /\ income_shock_weight \in {R(1), <<1, 2>>}
    /\ taste_shock_scale \in TasteShockScales
    /\ choice_probabilities = NoTerms /\ choice_probs = NoTerms
    /\ child_state_marg_util = no_term /\ child_state_exp_max_value = no_term
    /\ marg_util = no_term /\ log_sum = no_term /\ logsum = no_term
    /\ NoFues /\ NoModel /\ InitBatchLocals /\ NoEgm /\ NoStateSpace /\ NoSetup /\ NoFinalPeriod

AggregationNext ==
    \/ aggregate_marg_utilites_and_values_over_choices_and_weight
    \/ aggregate_marg_utils_and_exp_values
    \/ calc_log_sum

MaxEgmStateChoices == 2     \* the period has 1..MaxEgmStateChoices state-choices
MaxSavings == 2             \* points of the exogenous savings grid
MaxChildNodes == 2          \* child nodes of the next period
MaxExogStates == 2          \* states of the exogenous process

\* the inputs drawn for the EGM step
SavingsGrids == {[a \in 0..(MaxSavings - 1) |-> R(a)], [a \in 0..(MaxSavings - 1) |-> R(2 * a + 1)]}
TransitionVectors ==
    {[e \in 0..(MaxExogStates - 1) |-> IF e = 0 THEN R(1) ELSE R(0)],
     [e \in 0..(MaxExogStates - 1) |-> IF e = 0 THEN <<3, 10>> ELSE IF e = 1 THEN <<7, 10>> ELSE R(0)]}
StateChoiceRows == {<<0, 0>>, <<0, 1>>, <<1, 1>>}
ChildNodeMaps == [0..(MaxExogStates - 1) -> 0..(MaxChildNodes - 1)]

\* a call of calculate_candidate_solutions_from_euler_equation for the
\* state-choices 1..n of a model whose state-choice 0 belongs to another period
EgmInit ==
    /\ pc = "egm" /\ error = "none"
    /\ marg_util_next \in
          {f \in [0..(MaxChildNodes - 1) -> [0..(MaxSavings - 1) -> {R(1), R(2)}]] :
              f[0][0] = R(1)}
    /\ emax_next \in {[node \in 0..(MaxChildNodes - 1) |-> [a \in 0..(MaxSavings - 1) |-> R(v * node + a)]] :
                         v \in {-1, 1}}
    /\ \E n \in 1..MaxEgmStateChoices :
         /\ state_choice_mat \in
               {f \in [0..(n - 1) -> StateChoiceRows] : \A m \in 1..(n - 1) : f[m - 1] # f[m]}
         /\ idx_state_choices_period = [m \in 0..(n - 1) |-> m + 1]
    /\ map_state_to_post_decision_child_nodes \in
          {f \in [0..MaxEgmStateChoices -> ChildNodeMaps] : \A e \in DOMAIN f[0] : f[0][e] = 0}
    /\ exogenous_savings_grid \in SavingsGrids
    /\ \E t \in TransitionVectors :
          transition_vector_by_state =
              [state_vec \in {<<0>>, <<1>>} |->
                   IF state_vec = <<0>> THEN t
                   ELSE [e \in 0..(MaxExogStates - 1) |-> <<1, MaxExogStates>>]]
    /\ compute_inverse_marginal_utility \in {"reciprocal", "inverse_marginal_utility_crra"}
    /\ params \in [interest_rate : {R(0), <<1, 20>>}, beta : {R(1), <<19, 20>>}]
    /\ expected_value = EmptyArray
    /\ NoFues /\ NoModel /\ InitBatchLocals /\ NoAggregation /\ NoStateSpace /\ NoSetup /\ NoFinalPeriod

EgmNext == calculate_candidate_solutions_from_euler_equation

MaxSpacePeriods == 2        \* periods of the state spaces created
MaxSpaceChoices == 2        \* choices (values of lagged_choice)

\* a call of create_state_space: any sparsity condition with a valid state in
\* every period, any proxy
StateSpaceInit ==
    /\ pc = "create_state_space" /\ error = "none"
    /\ \E n \in 1..MaxSpacePeriods, k \in 1..MaxSpaceChoices :
         LET shape == [n_periods |-> n, n_choices |-> k]
             states == candidate_states(shape)
         IN  \E valid \in SUBSET states, proxy \in [states -> states] :
                 /\ \A p \in 0..(n - 1) : \E st \in valid : st[1] = p
                 /\ options = [n_periods |-> n, n_choices |-> k,
                               sparsity_condition |-> valid, proxy |-> proxy]
    /\ InitStateSpaceLocals
    /\ NoFues /\ NoModel /\ InitBatchLocals /\ NoAggregation /\ NoEgm /\ NoSetup /\ NoFinalPeriod

StateSpaceNext == VisitState \/ ReturnStateSpace

MaxSetupPeriods == 3        \* options have 1..MaxSetupPeriods periods
MaxSetupChoices == 2        \* and 1..MaxSetupChoices choices

\* the tuning parameters drawn, each of them possibly missing
TuningParams ==
    {tuning \in UNION {[keys -> {<<1, 5>>, <<1, 2>>, R(1), R(2), R(100)}] :
                          keys \in SUBSET {"extra_wealth_grid_factor",
                                           "n_constrained_points_to_add"}} :
        /\ "extra_wealth_grid_factor" \in DOMAIN tuning =>
              tuning["extra_wealth_grid_factor"] \in {<<1, 5>>, <<1, 2>>}
        /\ "n_constrained_points_to_add" \in DOMAIN tuning =>
              tuning["n_constrained_points_to_add"] \in {R(1), R(2), R(100)}}

\* a session that calls setup_model, setup_and_save_model and
\* load_and_setup_model with the same options, as test_load_and_save_model
\* does, or process_tuning_parameters; a file of an earlier session may exist
SetupInit ==
    /\ pc = "setup_model" /\ error = "none"
    /\ options \in [state_space : [n_periods : 1..MaxSetupPeriods, choices : 1..MaxSetupChoices],
                    model_params : [n_grid_points : {10, 100}],
                    tuning_params : TuningParams]
    /\ InitStateSpaceLocals
    /\ files \in [Paths -> {NoFile, dumps(dict_to_save(setup_model(
                     [state_space |-> [n_periods |-> 2, choices |-> 1],
                      model_params |-> [n_grid_points |-> 10],
                      tuning_params |-> EmptyArray], "utility functions")))}]
    /\ path = "none" /\ utility_functions = "none"
    /\ model_setup = NoModelSetup /\ model_after_saving = NoModelSetup
    /\ model_after_loading = NoModelSetup
    /\ tuned_options = EmptyArray
    /\ NoFues /\ NoModel /\ InitBatchLocals /\ NoAggregation /\ NoEgm /\ NoFinalPeriod

SetupNext ==
    \/ SetupModel
    \/ SetupAndSaveModel
    \/ LoadAndSetupModel
    \/ ProcessTuningParameters

MaxFinalStateChoices == 2   \* 1..MaxFinalStateChoices state-choices of the final period
MaxFinalStates == 2         \* of 1..MaxFinalStates states
MaxDraws == 4               \* 1..MaxDraws income shock draws
MaxWealthGrid == 10         \* the longest wealth grid
WealthGridSizes == {1, 5, MaxWealthGrid}

\* a call of solve_final_period: resources that grow along the wealth grid
\* and differ between the draws and, from a level of its own, between the states
FinalPeriodInit ==
    /\ pc = "solve_final_period" /\ error = "none"
    /\ \E n_states \in 1..MaxFinalStates, n_state_choices \in 1..MaxFinalStateChoices,
          n_grid_wealth \in WealthGridSizes, n_draws \in 1..MaxDraws :
         /\ \E level \in [0..(n_states - 1) -> 0..1] :
               resources_beginning_of_period =
                   [state \in 0..(n_states - 1) |-> [g \in 0..(n_grid_wealth - 1) |->
                       [d \in 0..(n_draws - 1) |-> <<2 * (level[state] + g) + d + 1, 2>>]]]
         /\ \E parents \in [0..(n_state_choices - 1) -> 0..(n_states - 1)] :
               state_objects_final_period =
                   [idx_parent_states |-> parents,
                    state_choice_mat |->
                        [m \in 0..(n_state_choices - 1) |->
                            [period |-> 1, lagged_choice |-> parents[m], choice |-> m]]]
    /\ compute_final_period \in {"utility and bequest", "utility"}
    /\ params \in {[beta |-> R(1), interest_rate |-> R(0)],
                   [beta |-> <<1, 2>>, interest_rate |-> R(1)]}
    /\ value_final = EmptyArray /\ policy_left = EmptyArray /\ policy_right = EmptyArray
    /\ marg_util_interpolated = EmptyArray /\ value_interpolated = EmptyArray
    /\ marg_util_next = EmptyArray /\ emax_next = EmptyArray
    /\ idx_state_choices_period = EmptyArray
    /\ map_state_to_post_decision_child_nodes = EmptyArray
    /\ exogenous_savings_grid = EmptyArray
    /\ transition_vector_by_state = EmptyArray
    /\ state_choice_mat = EmptyArray
    /\ compute_inverse_marginal_utility = "none"
    /\ expected_value = EmptyArray
    /\ NoFues /\ NoModel /\ InitBatchLocals /\ NoAggregation /\ NoStateSpace /\ NoSetup

FinalPeriodNext == solve_final_period

vars == <<fues_vars, batch_vars, later_parts>>

Spec == FuesInit /\ [][FuesNext]_vars

SpecBatch == BatchInit /\ [][BatchNext]_vars

SpecAggregation == AggregationInit /\ [][AggregationNext]_vars

SpecEgm == EgmInit /\ [][EgmNext]_vars

SpecStateSpace == StateSpaceInit /\ [][StateSpaceNext]_vars

SpecSetup == SetupInit /\ [][SetupNext]_vars

SpecFinalPeriod == FinalPeriodInit /\ [][FinalPeriodNext]_vars

SpecAugment == AugmentInit /\ [][AugmentNext]_vars

SpecScan == ScanInit /\ [][ScanNext]_vars

\* the routine is sequential code that runs on until it returns or raises
SpecBatchFair == BatchFairInit /\ [][BatchNext]_vars /\ WF_vars(BatchNext)

----------------------------------------------------------------------------
(* Properties of the upper-envelope scan *)

Returned == pc = "done"
Distinct(a) == \A m, q \in DOMAIN a : m # q => a[m] # a[q]
no_kink(h) == \A m \in 1..Len(h) : h[m].branch \notin {"kink_ends", "kink_continues"}
some(h, br) == \E m \in 1..Len(h) : h[m].branch = br

C3_ValueNonDecreasing ==
    Returned => IsSorted(valid_prefix(value_refined))

\* (x, y) lies on the line through (x1, y1) and (x2, y2)
on_line(x1, y1, x2, y2, x, y) ==
    RMul(RSub(y, y1), RSub(x2, x1)) = RMul(RSub(y2, y1), RSub(x, x1))

\* the entries of a from index m on are those of b
same_from(a, b, m) == \A q \in DOMAIN a : q >= m => a[q] = b[q]
same_below(a, b, m) == \A q \in DOMAIN a : q < m => a[q] = b[q]

\* the candidate i + 1 is a kink at which the upper branch ends (lines 272-295)
classified_kink_ends ==
    /\ Deciding
    /\ step.switch_value_func
    /\ ~suboptimal(value[i + 1], RSub(endog_grid[i + 1], policy[i + 1]),
                   step.grad_next, step.fwd.grad, step.switch_value_func)
    /\ \/ GradLess(step.grad_next, step.grad_before)
       \/ GradLess(step.grad_next, Plain(step.bwd.grad))

\* the three entries written from index m on: the intersection of the line
\* through f and j with the line through i + 1 and b, twice, with the policy
\* interpolated between f and j and then between i + 1 and b, and point i + 1
three_entries(m, f, b) ==
    /\ endog_grid_refined'[m + 1] = endog_grid_refined'[m]
    /\ value_refined'[m + 1] = value_refined'[m]
    /\ on_line(endog_grid[f], value[f], endog_grid_j, value_j,
               endog_grid_refined'[m], value_refined'[m])
    /\ on_line(endog_grid[i + 1], value[i + 1], endog_grid[b], value[b],
               endog_grid_refined'[m], value_refined'[m])
    /\ on_line(endog_grid[f], policy[f], endog_grid_j, policy_j,
               endog_grid_refined'[m], policy_refined'[m])
    /\ on_line(endog_grid[i + 1], policy[i + 1], endog_grid[b], policy[b],
               endog_grid_refined'[m + 1], policy_refined'[m + 1])
    /\ endog_grid_refined'[m + 2] = endog_grid[i + 1]
    /\ value_refined'[m + 2] = value[i + 1]
    /\ policy_refined'[m + 2] = policy[i + 1]

returns_its_input ==
    /\ pc = "done"
    /\ valid_prefix(endog_grid_refined) = valid_prefix(first_result.endog_grid)
    /\ valid_prefix(value_refined) = valid_prefix(first_result.value)
    /\ valid_prefix(policy_refined) = valid_prefix(first_result.policy)

\* C5 as stated: fast_upper_envelope applied to the valid prefix of its own
\* output returns arrays with that same valid prefix.
C5_Idempotent ==
    (run = 2 /\ pc \in {"done", "raised"}) => returns_its_input

\* C5, amended: fast_upper_envelope applied to the valid prefix of its own
\* output returns arrays with that same valid prefix when the first
\* application emitted no intersection point.
C5_IdempotentWithoutKink ==
    (run = 2 /\ pc \in {"done", "raised"} /\ no_kink(first_result.history)) =>
        returns_its_input

\* the second call returned, the first one having discarded a point of an
\* input of the greatest length
C5_Witness ==
    /\ run = 2 /\ pc = "done"
    /\ no_kink(first_result.history) /\ some(first_result.history, "discard")
    /\ len(first_result.endog_grid) = MaxLen
    /\ Len(history) > 0

\* the refined arrays hold the whole sorted input and nothing else
returns_sorted_input ==
    /\ endog_grid_refined = endog_grid
    /\ value_refined = value
    /\ policy_refined = policy

never_jumped(h) == \A m \in 1..Len(h) : ~h[m].switch_value_func
all_accepted(h) == \A m \in 1..Len(h) : h[m].branch = "accept"

\* C6 as stated: when the choice-jump predicate is false at every scan step,
\* the valid prefix returned by fast_upper_envelope_wrapper is the stably
\* sorted input with the zero-savings point prepended.
C6_NoJumpReturnsInput ==
    (Returned /\ caller = "wrapper" /\ run = 1 /\ never_jumped(history)) =>
        returns_sorted_input

\* C6, amended: when every scan step accepts its candidate (the choice-jump
\* predicate is false and the candidate is not discarded), the call returns
\* the stably sorted input, without NaN, no point removed and none added.
C6_AllAcceptedReturnsInput ==
    (Returned /\ all_accepted(history)) => returns_sorted_input

\* the wrapper returned after a scan step that accepted its candidate
C6_Witness ==
    /\ Returned /\ caller = "wrapper" /\ run = 1
    /\ Len(history) > 0 /\ all_accepted(history)
    /\ n_grid = MaxRawLen + 1

\* (v[m + 1] - v[m]) / (x[m + 1] - x[m]) on a strictly increasing grid x
gradient(x, v, m) == RDiv(RSub(v[m + 1], v[m]), RSub(x[m + 1], x[m]))

\* strictly increasing grid with non-increasing value gradients
monotone_input ==
    /\ IsStrictlyIncreasing(endog_grid)
    /\ \A m \in 1..(n_grid - 2) :
          RLeq(gradient(endog_grid, value, m), gradient(endog_grid, value, m - 1))

\* value and exogenous grid do not fall, and the exogenous grid does not jump,
\* from any point to the next
no_fall_and_no_jump ==
    \A m \in 1..(n_grid - 1) :
        /\ RLeq(value[m - 1], value[m])
        /\ RLeq(exog_grid[m - 1], exog_grid[m])
        /\ RLeq(RAbs(RSub(exog_grid[m], exog_grid[m - 1])),
                RMul(R(jump_thresh_default), RSub(endog_grid[m], endog_grid[m - 1])))

every_input_point_returned ==
    \A m \in DOMAIN endog_grid :
        \E q \in DOMAIN endog_grid_refined :
            /\ endog_grid_refined[q] = endog_grid[m]
            /\ value_refined[q] = value[m]
            /\ policy_refined[q] = policy[m]

\* C7 as stated: on a strictly increasing grid with non-increasing value
\* gradients the scan discards no point, and every input point is in the
\* valid prefix of the output.
C7_MonotoneInputKeepsAll ==
    (pc \in {"scan", "decide", "done"} /\ monotone_input) =>
        /\ ~some(history, "discard")
        /\ Returned => every_input_point_returned

\* C7, amended: on a strictly increasing grid with non-increasing value
\* gradients on which, from each point to the next, neither the value nor the
\* exogenous grid falls and the choice-jump predicate is false, the scan
\* raises nothing, accepts every candidate, and returns every input point.
C7_MonotoneInputWithoutFallKeepsAll ==
    (pc \in {"scan", "decide", "done", "raised"} /\ monotone_input /\ no_fall_and_no_jump) =>
        /\ pc # "raised"
        /\ all_accepted(history)
        /\ Returned => returns_sorted_input

\* a call returned for such an input of the greatest length whose value and
\* policy both change along the grid
C7_Witness ==
    /\ Returned /\ run = 1 /\ monotone_input /\ no_fall_and_no_jump
    /\ n_grid = MaxLen /\ Len(history) = MaxLen - 3
    /\ value[0] # value[n_grid - 1] /\ policy[1] # policy[2]

\* C8: the three arrays returned by scan_value_function have NaN at the same
\* positions, and no NaN entry precedes a valid entry; the valid entries are
\* the idx_refined + 1 first ones.
C8_NaNSuffix ==
    Returned =>
        \A m \in DOMAIN endog_grid_refined :
            /\ IsNaN(endog_grid_refined[m]) <=> m > idx_refined
            /\ IsNaN(value_refined[m]) <=> m > idx_refined
            /\ IsNaN(policy_refined[m]) <=> m > idx_refined

\* a call returned arrays of the greatest length with a NaN suffix
C8_Witness ==
    /\ Returned /\ run = 1
    /\ n_grid = MaxLen
    /\ idx_refined < n_grid - 1

----------------------------------------------------------------------------
(* Properties of the batches *)

BatchesReturned == pc = "returned"
ids_of(batch) == {batch[m] : m \in DOMAIN batch}
periods_of(batch) == {state_choice_space[id] : id \in ids_of(batch)}

\* the state-choice ids the state-choice id depends on: those of its child states
child_ids(id) ==
    UNION {{map_state_choice_to_index[c][q] : q \in DOMAIN map_state_choice_to_index[c]} :
              c \in {map_state_choice_to_child_states[id][e] :
                         e \in DOMAIN map_state_choice_to_child_states[id]}}

\* solved before batch k: the last two periods and the batches before k
solved_before(k) ==
    (DOMAIN state_choice_space \ wo_last_two)
    \cup UNION {ids_of(batches_to_check[q]) : q \in 0..(k - 1)}

\* C9 as stated: on return, every state-choice id of a child state of a
\* state-choice of a batch lies outside that batch, in the last two periods or
\* in a batch earlier in the returned list.
C9_ChildrenSolvedBefore ==
    BatchesReturned =>
        \A k \in DOMAIN batches_to_check :
            \A id \in ids_of(batches_to_check[k]) : child_ids(id) \subseteq solved_before(k)

descending(batch) == \A m \in DOMAIN batch : batch[m] = batch[0] - m

batches_of(size) ==
    split(flip(state_choice_index_back), arange(size, len(state_choice_index_back), size))

\* no batch of that size has a largest id above the smallest positive
\* state-choice id of its child states
every_batch_passes(size) ==
    \A k \in DOMAIN batches_of(size) :
        batch_max(batches_of(size)[k]) <= min_state_choice_idx(batches_of(size)[k])

RECURSIVE s(_)
\* s(0) = number of state-choices of the last period before the final two,
\* s(n + 1) = floor(0.95 * s(n))
s(n) == IF n = 0 THEN size_last_batch ELSE (s(n - 1) * 95) \div 100

\* C11: on return, the batch size is the first element of the sequence s(0),
\* s(1), ... for which every batch passes the dependency check of line 379: it
\* is an element s(n) that passes, and no earlier element s(q), q < n, passes.
C11_FirstPassingSize ==
    BatchesReturned =>
        \E n \in 0..(MaxStates * MaxChoices) :
            /\ current_batch_size = s(n)
            /\ every_batch_passes(s(n))
            /\ \A q \in 0..(n - 1) : ~every_batch_passes(s(q))
            /\ batches_to_check = batches_of(s(n))

\* the routine returned the second element of the sequence, the floor of
\* 0.95 * 4 = 3.8, after the first element failed
C11_Witness ==
    /\ BatchesReturned
    /\ size_last_batch = 4
    /\ current_batch_size = 3
    /\ ~every_batch_passes(s(0))
    /\ len(batches_to_check) >= 3

----------------------------------------------------------------------------
(* Properties of the aggregation kernels *)

feasible_choices == {c \in DOMAIN choice_set_indices : choice_set_indices[c] = 1}
finite_values == \A c \in DOMAIN values : isfinite(values[c])

\* the probabilities of the choices of C are numbers that add up to 1: they
\* are fractions over one sum of exponentials, and their numerators are the
\* terms of that sum
sums_to_one(probs, C) ==
    /\ \A c \in C : probs[c] # nan_term
    /\ \E c \in C : probs[c] # zero_term
    /\ LET fracs == {c \in C : probs[c] # zero_term}
           den == probs[CHOOSE c \in fracs : TRUE][3]
       IN  /\ \A c \in fracs : probs[c][3] = den
           /\ \A c \in fracs : \E t \in den : t[1] = probs[c][2]
           /\ \A t \in den : Cardinality({c \in fracs : probs[c][2] = t[1]}) = t[2]

\* C12 as stated: after kernel 1 ran with a positive taste shock scale on
\* finite values and at least one feasible choice, the choice probability of
\* every infeasible choice is 0 and the probabilities of the feasible choices
\* sum to 1.
C12_ProbabilitiesSumToOne ==
    (/\ pc = "kernel 1"
     /\ RPos(taste_shock_scale) /\ finite_values /\ feasible_choices # {}) =>
        /\ \A c \in DOMAIN values \ feasible_choices : choice_probabilities[c] = zero_term
        /\ sums_to_one(choice_probabilities, feasible_choices)

\* the result is the number m: the weighted sum of the terms of its
\* denominator, each weighted by m
equals(result, m) ==
    /\ result \notin {nan_term, zero_term, no_term}
    /\ result[2] = {<<t[1], RMul(m, R(t[2]))>> : t \in result[3]}

\* the choices of C with the largest value
maximisers(C) == {c \in C : \A q \in C : RLeq(values[q], values[c])}

\* C13 as stated: after a kernel ran with taste shock scale 0 on finite values
\* and at least one feasible choice, the expected value is the largest value
\* of a feasible choice (times the income shock weight) and the aggregated
\* marginal utility is that of a maximising choice; _calc_log_sum, which has
\* no choice set, returns the largest value.
C13_ZeroScaleFallsBackToMax ==
    (RIsZero(taste_shock_scale) /\ finite_values /\ feasible_choices # {}) =>
        /\ pc = "kernel 1" =>
              \E c \in maximisers(feasible_choices) :
                  /\ child_state_exp_max_value =
                         <<"num", RMul(values[c], income_shock_weight)>>
                  /\ equals(child_state_marg_util,
                            RMul(marg_utilities[c], income_shock_weight))
        /\ pc = "kernel 2" =>
              \E c \in maximisers(feasible_choices) :
                  /\ log_sum = <<"num", RMul(values[c], income_shock_weight)>>
                  /\ equals(marg_util, RMul(marg_utilities[c], income_shock_weight))
        /\ pc = "kernel 3" =>
              \E c \in maximisers(DOMAIN values) : logsum = <<"num", values[c]>>

----------------------------------------------------------------------------
(* Properties of the EGM step *)

\* sum over the exogenous child states e of state-choice m of
\* transition_prob[e] * next[child node e][a]
integrated(next, m, a) ==
    LET nodes == map_state_to_post_decision_child_nodes[idx_state_choices_period[m]]
        probs == transition_vector_by_state[<<state_choice_mat[m][1]>>]
    IN  rsum([e \in DOMAIN nodes |-> RMul(probs[e], next[nodes[e]][a])], DOMAIN nodes)

\* C14: after the EGM step, for every state-choice m and every savings point
\* a, the policy is the inverse marginal utility of beta * (1 + interest_rate)
\* times the integrated marginal utility, the endogenous grid point is the
\* savings point plus the policy, the expected value is the integrated
\* expected maximum value, and the value is compute_value of the policy, that
\* expected value and the choice of the state-choice.
C14_EgmStep ==
    pc = "candidates" =>
        \A m \in DOMAIN state_choice_mat : \A a \in DOMAIN exogenous_savings_grid :
            LET rhs == RMul(RMul(params.beta, RAdd(R(1), params.interest_rate)),
                            integrated(marg_util_next, m, a))
                c == inverse_marginal_utility(compute_inverse_marginal_utility, rhs, params)
            IN  /\ policy[m][a] = c
                /\ endog_grid[m][a] = RAdd(exogenous_savings_grid[a], c)
                /\ expected_value[m][a] = integrated(emax_next, m, a)
                /\ value[m][a] =
                       compute_value(c, integrated(emax_next, m, a), state_choice_mat[m][2])

\* the step ran for two state-choices with a positive interest rate and a
\* discount factor below 1, one of which integrates over two different child
\* nodes with different marginal utilities
C14_Witness ==
    /\ pc = "candidates"
    /\ len(state_choice_mat) = 2
    /\ RPos(params.interest_rate) /\ params.beta # R(1)
    /\ \E m \in DOMAIN state_choice_mat :
          LET nodes == map_state_to_post_decision_child_nodes[idx_state_choices_period[m]]
          IN  /\ transition_vector_by_state[<<state_choice_mat[m][1]>>][1] = <<7, 10>>
              /\ marg_util_next[nodes[0]][0] # marg_util_next[nodes[1]][0]
              /\ policy[m][0] # policy[m][1]

----------------------------------------------------------------------------
(* Properties of create_state_space *)

StateSpaceReturned == pc = "state space"
valid_states == options.sparsity_condition
proxied(state) == options.proxy[state] # state

\* C15 as stated: on return, the slot of map_child_state_to_index of every
\* state that the sparsity condition declares invalid and for which a valid
\* proxy state is supplied holds the state id of the proxy; when no state has
\* a proxy, map_child_state_to_index is map_state_to_index.
C15_ProxySlotHoldsProxyId ==
    StateSpaceReturned =>
        /\ \A state \in candidate_states(options) :
              (state \notin valid_states /\ proxied(state)
               /\ options.proxy[state] \in valid_states) =>
                  /\ map_child_state_to_index[state] = map_state_to_index[options.proxy[state]]
                  /\ map_child_state_to_index[state] # absent
        /\ (\A state \in candidate_states(options) : ~proxied(state)) =>
              map_child_state_to_index = map_state_to_index

\* (a) a valid state is proxied to a different state, or (b) the proxy of an
\* invalid state is not a valid state
inconsistent_proxies ==
    \E state \in candidate_states(options) :
        \/ state \in valid_states /\ proxied(state)
        \/ state \notin valid_states /\ proxied(state)
           /\ options.proxy[state] \notin valid_states

\* C16 as stated: with inconsistent proxies, create_state_space returns no
\* state space (and raises ValueError no later than at the end of the loops).
C16_InconsistentProxiesRaise ==
    inconsistent_proxies =>
        /\ ~StateSpaceReturned
        /\ period = options.n_periods => (pc = "raised" /\ error = "ValueError")

----------------------------------------------------------------------------
(* C17, C18: setup, save and load                                          *)

\* the keys of the dictionary in a file
keys_in(bytes) == {bytes[m][1] : m \in 1..Len(bytes)}

too_many_points_in(opts) ==
    /\ "n_constrained_points_to_add" \in DOMAIN opts.tuning_params
    /\ process_tuning_parameters(flat(opts)).error = "ValueError"

\* C18 as stated: once setup_model was called with options for which
\* n_grid_points * (1 + extra_wealth_grid_factor) is less than
\* n_grid_points + n_constrained_points_to_add, it has raised ValueError.
C18_SetupModelRaisesValueError ==
    (utility_functions # "none" /\ too_many_points_in(options)) =>
        (pc = "raised" /\ error = "ValueError")

----------------------------------------------------------------------------
(* C19: the solution of the final period                                   *)

FinalPeriodSolved == pc = "final period"

n_grid_wealth == len(resources_beginning_of_period[0])

\* C19: for every state-choice of the final period, policy and endogenous
\* grid are the same array: on the first G entries the beginning-of-period
\* resources of the state of the state-choice (at one income shock draw, the
\* same for all), then exactly int(0.2 * G) entries NaN; the value array has
\* G entries of the callback's value at these resources and the same NaN
\* entries.
C19_FinalPeriodConsumesEverything ==
    FinalPeriodSolved =>
        \E d \in DOMAIN resources_beginning_of_period[0][0] :
            \A m \in DOMAIN state_objects_final_period.idx_parent_states :
                LET G == n_grid_wealth
                    state == state_objects_final_period.idx_parent_states[m]
                IN  /\ policy_left[m] = endog_grid[m] /\ policy_right[m] = endog_grid[m]
                    /\ DOMAIN endog_grid[m] = 0..(G + int(RMul(<<1, 5>>, R(G))) - 1)
                    /\ DOMAIN value_final[m] = DOMAIN endog_grid[m]
                    /\ \A g \in DOMAIN endog_grid[m] :
                          IF g < G
                          THEN /\ endog_grid[m][g] = resources_beginning_of_period[state][g][d]
                               /\ value_final[m][g] = value_interpolated[m][g][d]
                               /\ value_final[m][g] =
                                     <<"value", compute_final_period,
                                       state_objects_final_period.state_choice_mat[m],
                                       endog_grid[m][g], params>>
                          ELSE IsNaN(endog_grid[m][g]) /\ IsNaN(value_final[m][g])

\* two state-choices of different states, ten grid points, two NaN entries
\* and more than one draw
C19_Witness ==
    /\ FinalPeriodSolved
    /\ n_grid_wealth = 10 /\ len(endog_grid[0]) = 12
    /\ len(resources_beginning_of_period[0][0]) = MaxDraws
    /\ len(endog_grid) = 2
    /\ state_objects_final_period.idx_parent_states[0] # state_objects_final_period.idx_parent_states[1]
    /\ endog_grid[0][0] # endog_grid[1][0]
    /\ IsNaN(endog_grid[0][10]) /\ IsNaN(value_final[1][11])

----------------------------------------------------------------------------
(* C21-C23: the branches of an iteration of scan_value_function            *)

\* the condition of C21 on candidate i + 1, from the quantities of lines 222-265
discard_condition ==
    \/ RLess(value[i + 1], value_j)
    \/ RLess(RSub(endog_grid[i + 1], policy[i + 1]), exog_grid_j)
    \/ (step.switch_value_func /\ GradLess(step.grad_next, Plain(step.fwd.grad)))

\* index i + 1 is pushed into the ring of suboptimal points
pushed ==
    /\ suboptimal_points'[n_points_to_scan - 1] = i + 1
    /\ \A q \in 0..(n_points_to_scan - 2) : suboptimal_points'[q] = suboptimal_points[q + 1]

\* C21: an iteration discards candidate i + 1 exactly when its value is below
\* the value of j, or its exogenous grid point is below that of j, or the
\* jump predicate holds and grad_next is below the gradient of the forward
\* scan; a discard pushes i + 1 into the ring and leaves k, j, the write
\* index and the refined arrays as they are.
C21_DiscardExactlyWhenSuboptimal ==
    [][Deciding =>
          IF discard_condition
          THEN /\ pushed
               /\ i' = i + 1 /\ pc' = "scan"
               /\ UNCHANGED <<value_j, endog_grid_j, policy_j, exog_grid_j,
                              value_k, endog_grid_k, policy_k, idx_refined,
                              value_refined, policy_refined, endog_grid_refined>>
          ELSE suboptimal_points' = suboptimal_points]_vars

\* the scan has just discarded a candidate whose value and exogenous grid
\* point are not below those of j, after having accepted the candidate before
C21_Witness ==
    /\ pc = "scan" /\ Len(history) > 1
    /\ history[Len(history)].branch = "discard"
    /\ history[Len(history) - 1].branch = "accept"
    /\ suboptimal_points[n_points_to_scan - 1] = i
    /\ ~RLess(value[i], value_j)
    /\ ~RLess(RSub(endog_grid[i], policy[i]), exog_grid_j)
    /\ idx_refined > 2

\* candidate i + 1 is across a choice jump from j, is not discarded, and no
\* kink inequality holds strictly: grad_before <= grad_next = grad_next_backward
tie ==
    /\ Deciding
    /\ step.switch_value_func
    /\ ~discard_condition
    /\ ~GradLess(step.grad_next, step.grad_before)
    /\ ~GradLess(step.grad_next, Plain(step.bwd.grad))
    /\ ~GradLess(Plain(step.bwd.grad), step.grad_next)

\* C22 as stated: at a tie the iteration emits point i + 1 and advances k to
\* j and j to i + 1, so that every scanned candidate is emitted or pushed
\* into the ring.
C22_TieIsANonKink ==
    [][tie =>
          /\ idx_refined' = idx_refined + 1
          /\ endog_grid_refined'[idx_refined] = endog_grid[i + 1]
          /\ value_refined'[idx_refined] = value[i + 1]
          /\ policy_refined'[idx_refined] = policy[i + 1]
          /\ <<endog_grid_k', value_k', policy_k'>> = <<endog_grid_j, value_j, policy_j>>
          /\ <<endog_grid_j', value_j', policy_j'>> =
                <<endog_grid[i + 1], value[i + 1], policy[i + 1]>>]_vars

\* candidate i + 1 is a kink at which the upper branch continues (lines 272-350)
classified_kink_continues ==
    /\ Deciding
    /\ step.switch_value_func
    /\ ~discard_condition
    /\ ~GradLess(step.grad_next, step.grad_before)
    /\ ~GradLess(step.grad_next, Plain(step.bwd.grad))
    /\ GradLess(Plain(step.bwd.grad), step.grad_next)

----------------------------------------------------------------------------
(* C24: the arrays fast_upper_envelope_wrapper hands to fast_upper_envelope *)

Augmenting == pc = "wrapper" /\ pc' = "fues" /\ NeedsAugmentation(endog_grid)

\* the arrays after the step: the prepended point, then n_added points of the
\* n-point equally spaced grid from min(x) to x[0], each in [min(x), x[0]) with
\* policy equal to itself and value compute_value(point,
\* expected_value_zero_savings, choice), then the original entries in order
augmented_by(n_added) ==
    LET n == len(endog_grid) \div 10
        lowest == np_min(endog_grid)
    IN  /\ len(endog_grid') = 1 + n_added + len(endog_grid)
        /\ len(policy') = len(endog_grid') /\ len(value') = len(endog_grid')
        /\ \A m \in 0..(n_added - 1) :
              /\ endog_grid'[1 + m] =
                     RAdd(lowest, RMul(Rat(m, n - 1), RSub(endog_grid[0], lowest)))
              /\ RLeq(lowest, endog_grid'[1 + m])
              /\ RLess(endog_grid'[1 + m], endog_grid[0])
              /\ policy'[1 + m] = endog_grid'[1 + m]
        /\ \E choice \in 0..MaxWrapperChoice : \A m \in 0..(n_added - 1) :
              value'[1 + m] =
                  compute_value(endog_grid'[1 + m], expected_value_zero_savings, choice)
        /\ \A m \in DOMAIN endog_grid :
              /\ endog_grid'[1 + n_added + m] = endog_grid[m]
              /\ policy'[1 + n_added + m] = policy[m]
              /\ value'[1 + n_added + m] = value[m]

\* C24 as stated: whenever min(x) < x[0], the wrapper adds len(x) // 10 - 1
\* points to the left, the first n - 1 points of the n-point equally spaced
\* grid from min(x) to x[0], n = len(x) // 10, each with policy equal to its grid
\* value and value compute_value(point, expected_value_zero_savings, choice),
\* followed by the original entries in their order.
C24_AddsTenthMinusOne ==
    [][Augmenting => augmented_by(len(endog_grid) \div 10 - 1)]_vars

\* C24 amended: the number of added points is max(len(x) // 10 - 1, 0); a raw
\* grid of fewer than 20 points gets no point added.
C24_LeftAugmentation ==
    [][Augmenting => augmented_by(max({len(endog_grid) \div 10 - 1, 0}))]_vars

\* two points were added in front of a raw grid whose lowest point is not its first
C24_Witness ==
    /\ pc = "fues" /\ caller = "wrapper"
    /\ len(endog_grid) > 30
    /\ RLess(endog_grid[1], endog_grid[2]) /\ RLess(endog_grid[2], endog_grid[3])
    /\ policy[1] = endog_grid[1] /\ policy[2] = endog_grid[2]
    /\ value[2] = compute_value(endog_grid[2], expected_value_zero_savings, 1)
    /\ RLess(np_min([m \in 3..(len(endog_grid) - 1) |-> endog_grid[m]]), endog_grid[3])

----------------------------------------------------------------------------
(* C25: the result of _backward_scan *)

\* the same-branch predicate of candidate i + 1 and index b
on_same_value(b) ==
    /\ endog_grid[i + 1] # endog_grid[b]
    /\ RLess(RAbs(RDiv(RSub(exog_grid[i + 1], exog_grid[b]),
                       RSub(endog_grid[i + 1], endog_grid[b]))), jump_thresh)

gradient_to_j(b) == RDiv(RSub(value_j, value[b]), RSub(endog_grid_j, endog_grid[b]))

\* the ring positions that hold a discarded point on the branch of i + 1
discarded_on_same_value ==
    {q \in DOMAIN suboptimal_points :
        suboptimal_points[q] # 0 /\ on_same_value(suboptimal_points[q])}

\* C25 as stated: the backward scan returns the position of the newest ring
\* entry b on the branch of candidate i + 1, with the gradient
\* (v_j - v[b]) / (x_j - x[b]).
C25_NewestOnSameBranch ==
    Deciding /\ discarded_on_same_value # {} =>
        /\ step.bwd.sub_idx = max(discarded_on_same_value)
        /\ step.bwd.grad = gradient_to_j(suboptimal_points[step.bwd.sub_idx])

\* the ring positions line 527 lets through, a slot never filled holding index 0
left_of_j_on_same_value ==
    {q \in DOMAIN suboptimal_points :
        /\ RLess(endog_grid[suboptimal_points[q]], endog_grid_j)
        /\ on_same_value(suboptimal_points[q])}

\* C25 amended: the scan returns the newest ring position whose index b has
\* x[b] < x_j and lies on the branch of candidate i + 1, with the gradient
\* (v_j - v[b]) / (x_j - x[b]); positions never filled hold index 0 and are
\* scanned like the others; when no position qualifies the result is
\* position 0 and gradient 0.
C25_NewestLeftOfJOnSameBranch ==
    Deciding =>
        IF left_of_j_on_same_value = {}
        THEN step.bwd.sub_idx = 0 /\ step.bwd.grad = R(0) /\ ~step.bwd.found
        ELSE /\ step.bwd.sub_idx = max(left_of_j_on_same_value)
             /\ step.bwd.grad = gradient_to_j(suboptimal_points[step.bwd.sub_idx])
             /\ step.bwd.found

\* two discarded points left of j are on the branch of the candidate, and the
\* scan returned the newer one
C25_Witness ==
    /\ Deciding
    /\ \E q \in left_of_j_on_same_value :
          /\ suboptimal_points[q] # 0
          /\ q < step.bwd.sub_idx
          /\ gradient_to_j(suboptimal_points[q]) # step.bwd.grad

----------------------------------------------------------------------------
(* C26: the income shock draw that solve_final_period stores               *)

n_draws_final == len(resources_beginning_of_period[0][0])

\* the resources of the state-choices at draw index d, read as line 68 reads them
resources_at_draw(d) ==
    take_draw([m \in DOMAIN state_objects_final_period.idx_parent_states |->
                  resources_beginning_of_period[state_objects_final_period.idx_parent_states[m]]],
              d)

\* C26: the index of line 63, int(n_draws + 1 / 2), is n_draws, one past the
\* last valid index of the shock axis, for every n_draws >= 1; it is the
\* middle index (n_draws + 1) // 2 only where the two coincide (n_draws = 1),
\* and the stored resources are those read at index n_draws.
C26_DrawIndexIsNumberOfDraws ==
    FinalPeriodSolved =>
        /\ n_draws_final >= 1
        /\ middle_of_draws(n_draws_final) = n_draws_final
        /\ middle_of_draws(n_draws_final) > n_draws_final - 1
        /\ (middle_of_draws(n_draws_final) = (n_draws_final + 1) \div 2) <=> (n_draws_final = 1)
        /\ \A m \in DOMAIN endog_grid : \A g \in 0..(n_grid_wealth - 1) :
              endog_grid[m][g] = resources_at_draw(n_draws_final)[m][g]

\* four draws: the stored resources are not those of the middle draw
C26_Witness ==
    /\ FinalPeriodSolved
    /\ n_draws_final = 4
    /\ endog_grid[0][0] # resources_at_draw((n_draws_final + 1) \div 2)[0][0]
    /\ endog_grid[0][0] = resources_at_draw(n_draws_final - 1)[0][0]

----------------------------------------------------------------------------
(* C27, C28: the batches of determine_optimal_batch_size and its loop      *)

\* the batches that hold the id
batches_with(id) == {k \in DOMAIN batches_to_check : id \in ids_of(batches_to_check[k])}

Retry == pc = "while" /\ need_to_reduce_batchsize /\ pc' # "while"

\* C28: the loop of determine_optimal_batch_size terminates: every call
\* returns, each retry makes the candidate batch size strictly smaller and
\* leaves it at 1 or above, and a batch size of 1 passes the check of every
\* batch.
C28_BatchSearchTerminates ==
    /\ <>BatchesReturned
    /\ [][Retry => current_batch_size' < current_batch_size /\ current_batch_size' >= 1]_vars
    /\ [](pc = "batch" => every_batch_passes(1))
    /\ [](error = "none")

\* the search returned after two retries, from size 4 over 3 to 2
C28_Witness ==
    /\ BatchesReturned
    /\ size_last_batch = 4
    /\ current_batch_size = 2
    /\ \A n \in 0..1 : s(n + 1) < s(n) /\ s(n + 1) >= 1 /\ ~every_batch_passes(s(n))

----------------------------------------------------------------------------
(* C29, C30: the write index and the scan results of scan_value_function   *)

\* C29 as stated: the refined arrays have the length n of the input, and no
\* step of scan_value_function writes at an index that is not below n (such a
\* write ends the call with IndexError).
C29_WriteIndexStaysBelowLength ==
    /\ pc \in {"scan", "decide", "done"} => len(endog_grid_refined) = n_grid
    /\ error # "IndexError"

\* C30 as stated: whenever a kink intersection is computed, the index b read
\* from the ring is a point discarded earlier in the scan that the backward
\* scan found on the branch of candidate i + 1, and, where the lower branch
\* is used (line 295), the index f is one the forward scan found.
C30_KinkEndpointsAreGenuine ==
    Deciding /\ Branch \in {"kink_ends", "kink_continues"} =>
        /\ step.bwd.found
        /\ idx_before_on_upper_curve # 0
        /\ on_same_value(idx_before_on_upper_curve)
        /\ Branch = "kink_ends" => step.fwd.found /\ idx_next_on_lower_curve # 0

====
